---- MODULE Spec2Model ----
\* Verification model of the astronomical visibility engine and the sequence
\* scheduling optimizer (src-tauri/src/services/astronomy.rs,
\* src-tauri/src/services/sequence_optimizer.rs, src-tauri/src/models).
\*
\* Conventions
\*  - Option<T> is a sequence: <<>> is None, <<x>> is Some(x).
\*  - A DateTime<Utc> is a whole number of seconds counted from 00:00:00 UTC of
\*    the `date` argument of the call (chrono keeps whole seconds here because
\*    jd_to_datetime builds every instant with NaiveTime::from_hms_opt).
\*  - A Julian Day is kept relative to jd_start (the JD of that midnight) and
\*    on the binary64 grid: for every JD in [2^21, 2^22), i.e. the years 1030
\*    to 6771, two neighbouring f64 values are 2^-31 day apart.
\*  - Altitudes and angles are whole degrees.  Seconds of runtime are kept in
\*    halves (TimeScale units per second) so that `as i64` has something to cut.
EXTENDS Integers, Sequences, FiniteSets, TLC

VARIABLES
    vw_track,          \* calculate_visibility_window: the target's altitude track
    vw_min_altitude,   \* calculate_visibility_window: min_altitude
    vw_window,         \* calculate_visibility_window: Option of the returned window
    sequence,          \* the SimpleSequence handed to the optimizer services
    conflict_result,   \* detect_conflicts: Option of the returned ConflictResult
    strategy,          \* optimize_sequence: the OptimizationStrategy
    opt_result,        \* optimize_sequence: Option of the returned OptimizationResult
    par_op,            \* the batch function being called
    par_pending,       \* indices of the targets whose evaluation has not finished
    par_slots,         \* the Vec being collected: one Option per input target
    current_time,      \* calculate_etas_parallel: the running sum of the sequential loop
    par_out_of_order,  \* history: an evaluation finished before one of a lower index
    par_result,        \* Option of the returned Vec
    apply_order,       \* apply_optimized_order: the `order` argument
    apply_original,    \* history: sequence.targets as apply_optimized_order found them
    apply_done,        \* apply_optimized_order has returned
    call,              \* a call of a pure function: its name and arguments
    call_result        \* Option of the value that call returned

optVars == <<strategy, opt_result>>
parVars == <<par_op, par_pending, par_slots, current_time, par_out_of_order,
             par_result>>
visVars == <<vw_track, vw_min_altitude, vw_window>>
appVars == <<apply_order, apply_original, apply_done>>
callVars == <<call, call_result>>
\* everything the visibility, conflict, optimizer and batch calls leave alone
extVars == <<appVars, callVars>>

vars == <<vw_track, vw_min_altitude, vw_window, sequence, conflict_result,
          strategy, opt_result, par_op, par_pending, par_slots, current_time,
          par_out_of_order, par_result, apply_order, apply_original,
          apply_done, call, call_result>>

None == <<>>
Some(x) == <<x>>
is_some(o) == o # <<>>
is_none(o) == o = <<>>
unwrap(o) == o[1]
\* the least element of a non-empty set of integers
MinOf(S) == CHOOSE x \in S : \A y \in S : x <= y

\* ---------------------------------------------------------------------------
\* Bounds of the model
\* ---------------------------------------------------------------------------
\* most changes of altitude level along one day's track
MaxCuts == 3
\* most targets in a sequence given to optimize_sequence, detect_conflicts,
\* batch_calculate_positions, calculate_visibility_parallel, get_schedule_info
MaxTargets == 3
\* most targets in a sequence given to calculate_etas_parallel
MaxEtaTargets == 11

\* ---------------------------------------------------------------------------
\* Julian Day <-> DateTime (astronomy.rs)
\* ---------------------------------------------------------------------------
SECONDS_PER_DAY == 86400
\* the sample loop runs `for i in 0..=144` and divides by 144.0
SAMPLES == 144
\* f64 grid steps per day for a JD in [2^21, 2^22): 2^31 = GridHi * GridLo
GridHi == 524288
GridLo == 4096
\* 2^31 = 144 * GridPerSample + 128, i.e. 2^31/144 = GridPerSample + 8/9
GridPerSample == 14913080

\* jd_start + (i as f64) / 144.0, rounded to nearest on the f64 grid.  The exact
\* value lies 8i/9 of a grid step (mod 1) above a grid point, never on a tie.
\* A JD is [day, grid]: whole days after jd_start and grid steps after that.
SampleJd(i) ==
    IF i = SAMPLES THEN [day |-> 1, grid |-> 0]
    ELSE [day |-> 0, grid |-> i * GridPerSample + ((8 * i + 4) \div 9)]

\* jd_start itself and jd_start + 1.0 are exact
JdStart == [day |-> 0, grid |-> 0]
JdStartPlusOne == [day |-> 1, grid |-> 0]

\* jd_to_datetime: z = floor(jd + 0.5) picks the calendar day, f = jd + 0.5 - z
\* is the exact grid fraction; f*24, *60, *60 are exact in binary64 (f has at
\* most 31 significant bits) and hour, minute, second are cut with floor and
\* `as u32`, so the instant is floor(f * 86400) seconds into the day.
\* 86400 / 2^31 = 675 / 2^24, evaluated in two 12-bit halves to stay in range.
jd_to_datetime(jd) ==
    LET kh == jd.grid \div GridLo
        kl == jd.grid % GridLo
        secs == (kh * 675 + ((kl * 675) \div GridLo)) \div GridLo
    IN  jd.day * SECONDS_PER_DAY + secs

\* ---------------------------------------------------------------------------
\* The sky: altitude of a target along the sampled day
\* ---------------------------------------------------------------------------
\* ra_dec_to_alt_az(ra, dec, lat, lon, jd) is trigonometry in (target, place,
\* instant).  A track stands for one (coords, location, date): the altitude is
\* alts[1] from sample 0 and steps to alts[k+1] at sample cuts[k].
AltLevels == {-10, 25, 45}
CutSamples == {1, 5, 9, 72, 144}

RECURSIVE IncreasingSeqs(_, _)
IncreasingSeqs(n, lo) ==
    IF n = 0 THEN {<<>>}
    ELSE UNION { { <<c>> \o s : s \in IncreasingSeqs(n - 1, c) } :
                 c \in {x \in CutSamples : x > lo} }

Tracks ==
    UNION { { [cuts |-> c, alts |-> a] :
              c \in IncreasingSeqs(k, 0), a \in [1..(k + 1) -> AltLevels] } :
            k \in 0..MaxCuts }

ra_dec_to_alt_az(track, i) ==
    track.alts[1 + Cardinality({k \in 1..Len(track.cuts) : track.cuts[k] <= i})]

\* ---------------------------------------------------------------------------
\* calculate_visibility_window (astronomy.rs)
\* ---------------------------------------------------------------------------
\* a loop body in which every crossing overwrites start_time and end_time
VisSampleStepLastCrossing(track, min_altitude, i, s) ==
    LET alt == ra_dec_to_alt_az(track, i)
        is_visible == alt >= min_altitude
        newmax == alt > s.max_altitude
    IN  [ start_time |->
              IF is_visible /\ ~s.was_visible
              THEN Some(jd_to_datetime(SampleJd(i))) ELSE s.start_time,
          end_time |->
              IF ~is_visible /\ s.was_visible
              THEN Some(jd_to_datetime(SampleJd(i))) ELSE s.end_time,
          max_altitude |-> IF newmax THEN alt ELSE s.max_altitude,
          max_altitude_time |->
              IF newmax THEN jd_to_datetime(SampleJd(i)) ELSE s.max_altitude_time,
          was_visible |-> is_visible ]

\* one pass of the body of `for i in 0..=144`
VisSampleStep(track, min_altitude, i, s) ==
    LET alt == ra_dec_to_alt_az(track, i)
        is_visible == alt >= min_altitude
        newmax == alt > s.max_altitude
    IN  [ start_time |->
              IF is_visible /\ ~s.was_visible /\ is_none(s.start_time)
              THEN Some(jd_to_datetime(SampleJd(i))) ELSE s.start_time,
          end_time |->
              IF ~is_visible /\ s.was_visible /\ is_none(s.end_time)
              THEN Some(jd_to_datetime(SampleJd(i))) ELSE s.end_time,
          max_altitude |-> IF newmax THEN alt ELSE s.max_altitude,
          max_altitude_time |->
              IF newmax THEN jd_to_datetime(SampleJd(i)) ELSE s.max_altitude_time,
          was_visible |-> is_visible ]

\* the loop over samples lo..hi in ascending order, started in state s (the
\* range is halved and the first half is evaluated before the second starts, to
\* keep the evaluation shallow; the order of the passes is that of the loop)
RECURSIVE VisScan(_, _, _, _, _)
VisScan(track, min_altitude, lo, hi, s) ==
    IF lo > hi THEN s
    ELSE IF lo = hi THEN VisSampleStep(track, min_altitude, lo, s)
    ELSE LET mid == (lo + hi) \div 2
             first == VisScan(track, min_altitude, lo, mid, s)
         IN  IF first.was_visible \in BOOLEAN
             THEN VisScan(track, min_altitude, mid + 1, hi, first)
             ELSE first

VisScanInit ==
    [ start_time |-> None, end_time |-> None, max_altitude |-> -90,
      max_altitude_time |-> jd_to_datetime(JdStart), was_visible |-> FALSE ]

\* (*e - *s).num_minutes() as f64 / 60.0: whole minutes, kept as minutes
num_minutes(secs) == IF secs >= 0 THEN secs \div 60 ELSE -((-secs) \div 60)

\* a day-end step that leaves end_time as the loop left it
VisDayEndSkipped(s) == s.end_time

\* `if was_visible && end_time.is_none()` after the loop
VisDayEnd(s) ==
    IF s.was_visible /\ is_none(s.end_time)
    THEN Some(jd_to_datetime(JdStartPlusOne)) ELSE s.end_time

\* a default that falls on the end of the day instead of its start
VisUnwrapOrDayEnd(o) ==
    IF is_some(o) THEN unwrap(o) ELSE jd_to_datetime(JdStartPlusOne)

\* `.unwrap_or_else(|| jd_to_datetime(jd_start))`
VisUnwrapOrJdStart(o) ==
    IF is_some(o) THEN unwrap(o) ELSE jd_to_datetime(JdStart)

\* duration_hours is kept in minutes: duration_hours = duration_minutes / 60
calculate_visibility_window(track, min_altitude) ==
    LET s == VisScan(track, min_altitude, 0, SAMPLES, VisScanInit)
        end_time == VisDayEnd(s)
    IN  [ start_time |-> VisUnwrapOrJdStart(s.start_time),
          end_time |-> VisUnwrapOrJdStart(end_time),
          max_altitude |-> s.max_altitude,
          max_altitude_time |-> s.max_altitude_time,
          duration_minutes |->
              IF is_some(s.start_time) /\ is_some(end_time)
              THEN num_minutes(unwrap(end_time) - unwrap(s.start_time)) ELSE 0,
          is_visible |-> is_some(s.start_time) ]

\* ---------------------------------------------------------------------------
\* Specification SpecVis: one call of calculate_visibility_window
\* ---------------------------------------------------------------------------
MinAltitudes == {20, 30}

AppIdle ==
    /\ apply_order = <<>>
    /\ apply_original = <<>>
    /\ apply_done = FALSE

CallIdle ==
    /\ call = [fn |-> "none"]
    /\ call_result = None

ExtIdle == AppIdle /\ CallIdle

ParIdle ==
    /\ par_op = "none"
    /\ par_pending = {}
    /\ par_slots = <<>>
    /\ current_time = 0
    /\ par_out_of_order = FALSE
    /\ par_result = None

OptIdle ==
    /\ strategy = "Combined"
    /\ opt_result = None

VisIdle ==
    /\ vw_track = [cuts |-> <<>>, alts |-> <<-10>>]
    /\ vw_min_altitude = 20
    /\ vw_window = None

InitVis ==
    /\ vw_track \in Tracks
    /\ vw_min_altitude \in MinAltitudes
    /\ vw_window = None
    /\ sequence = [targets |-> <<>>, estimated_download_time |-> 0]
    /\ conflict_result = None
    /\ OptIdle
    /\ ParIdle
    /\ ExtIdle

CalculateVisibilityWindow ==
    /\ is_none(vw_window)
    /\ vw_window' = Some(calculate_visibility_window(vw_track, vw_min_altitude))
    /\ UNCHANGED <<vw_track, vw_min_altitude, sequence, conflict_result>>
    /\ UNCHANGED <<optVars, parVars, extVars>>

NextVis == CalculateVisibilityWindow

SpecVis == InitVis /\ [][NextVis]_vars

\* ---------------------------------------------------------------------------
\* Sequences, targets and exposures (models/simple_sequence.rs)
\* ---------------------------------------------------------------------------
\* f64 seconds are kept in units of 1/TimeScale second
TimeScale == 2

\* SimpleExposure::remaining
remaining(e) == IF e.total_count - e.progress_count > 0
                THEN e.total_count - e.progress_count ELSE 0

\* SimpleExposure::runtime, in 1/TimeScale seconds
exposure_runtime(e, download_time) ==
    IF ~e.enabled THEN 0
    ELSE remaining(e) * (e.exposure_time + download_time)

RECURSIVE SumExposures(_, _, _)
SumExposures(exposures, download_time, k) ==
    IF k > Len(exposures) THEN 0
    ELSE exposure_runtime(exposures[k], download_time)
             + SumExposures(exposures, download_time, k + 1)

\* a target runtime that forgets the delay and counts disabled exposures
RECURSIVE SumAllExposures(_, _, _)
SumAllExposures(exposures, download_time, k) ==
    IF k > Len(exposures) THEN 0
    ELSE remaining(exposures[k]) * (exposures[k].exposure_time + download_time)
             + SumAllExposures(exposures, download_time, k + 1)

target_runtime_exposures_only(t, download_time) ==
    SumAllExposures(t.exposures, download_time, 1)

\* SimpleTarget::runtime, in 1/TimeScale seconds (delay is whole seconds)
target_runtime(t, download_time) ==
    t.delay * TimeScale + SumExposures(t.exposures, download_time, 1)

\* exposure_time 60.0, total_count 10 (SimpleExposure::default and the tests)
Exposure(enabled, exposure_time, total_count, progress_count) ==
    [ enabled |-> enabled, exposure_time |-> exposure_time,
      total_count |-> total_count, progress_count |-> progress_count ]

\* ---------------------------------------------------------------------------
\* detect_conflicts (sequence_optimizer.rs)
\* ---------------------------------------------------------------------------
\* the minimum altitude the optimizer passes to calculate_visibility_window
OPTIMIZER_MIN_ALTITUDE == 20

\* calculate_visibility_window(&target.coordinates, location, date, 20.0),
\* tabulated once over the tracks
WindowTable == [tr \in Tracks |-> calculate_visibility_window(tr, OPTIMIZER_MIN_ALTITUDE)]
TargetWindow(t) == WindowTable[t.coordinates.track]

\* the (id, name, window, runtime) tuples of detect_conflicts
ConflictTargetInfo(seq) ==
    [ i \in 1..Len(seq.targets) |->
        [ id |-> seq.targets[i].id,
          name |-> seq.targets[i].target_name,
          window |-> TargetWindow(seq.targets[i]),
          runtime |-> target_runtime(seq.targets[i], seq.estimated_download_time) ] ]

ScheduleConflict(id1, name1, id2, name2, type) ==
    [ target1_id |-> id1, target1_name |-> name1,
      target2_id |-> id2, target2_name |-> name2, conflict_type |-> type ]

MaxOf2(a, b) == IF a >= b THEN a ELSE b
MinOf2(a, b) == IF a <= b THEN a ELSE b

\* `if overlap_start < overlap_end { ... if combined_runtime > overlap_duration`
\* runtimes are in 1/TimeScale seconds, the overlap in whole seconds
TimeOverlapConflict(a, b) ==
    LET overlap_start == MaxOf2(a.window.start_time, b.window.start_time)
        overlap_end == MinOf2(a.window.end_time, b.window.end_time)
    IN  /\ overlap_start < overlap_end
        /\ a.runtime + b.runtime > (overlap_end - overlap_start) * TimeScale

\* the inner loop `for ... in target_info.iter().skip(i + 1)` from index j on
RECURSIVE OverlapConflictsFrom(_, _, _)
OverlapConflictsFrom(info, i, j) ==
    IF j > Len(info) THEN <<>>
    ELSE (IF info[j].window.is_visible /\ TimeOverlapConflict(info[i], info[j])
          THEN << ScheduleConflict(info[i].id, info[i].name,
                                   info[j].id, info[j].name, "TimeOverlap") >>
          ELSE <<>>)
         \o OverlapConflictsFrom(info, i, j + 1)

\* an inner loop that starts at the target itself: `.skip(i)`
OverlapConflictsSelf(info, i) == OverlapConflictsFrom(info, i, i)

\* `.skip(i + 1)`: the targets after target i
OverlapConflicts(info, i) == OverlapConflictsFrom(info, i, i + 1)

\* `*runtime1 > window1.duration_hours * 3600.0`
RuntimeExceedsWindow(a) ==
    a.runtime > a.window.duration_minutes * 60 * TimeScale

\* an outer pass that checks the runtime before the visibility
TargetConflictsRuntimeFirst(info, i) ==
    (IF RuntimeExceedsWindow(info[i])
     THEN << ScheduleConflict(info[i].id, info[i].name, "", "", "InsufficientTime") >>
     ELSE <<>>)
    \o (IF ~info[i].window.is_visible
        THEN << ScheduleConflict(info[i].id, info[i].name, "", "", "VisibilityGap") >>
        ELSE OverlapConflicts(info, i))

\* one pass of the outer loop `for (i, ...) in target_info.iter().enumerate()`
TargetConflicts(info, i) ==
    IF ~info[i].window.is_visible
    THEN << ScheduleConflict(info[i].id, info[i].name, "", "", "VisibilityGap") >>
    ELSE (IF RuntimeExceedsWindow(info[i])
          THEN << ScheduleConflict(info[i].id, info[i].name, "", "", "InsufficientTime") >>
          ELSE <<>>)
         \o OverlapConflicts(info, i)

RECURSIVE AllConflictsFrom(_, _)
AllConflictsFrom(info, i) ==
    IF i > Len(info) THEN <<>>
    ELSE TargetConflicts(info, i) \o AllConflictsFrom(info, i + 1)

Suggestions ==
    << "Consider splitting the session across multiple nights",
       "Prioritize targets with shorter visibility windows",
       "Reduce exposure counts for conflicting targets" >>

\* a result whose suggestions are pushed whether or not a conflict was found
detect_conflicts_always_suggests(seq) ==
    LET conflicts == AllConflictsFrom(ConflictTargetInfo(seq), 1)
    IN  [ has_conflicts |-> conflicts # <<>>,
          conflicts |-> conflicts,
          suggestions |-> Suggestions ]

\* detect_conflicts: the conflicts of all targets, the suggestions pushed
\* `if !conflicts.is_empty()`, has_conflicts = !conflicts.is_empty()
detect_conflicts(seq) ==
    LET conflicts == AllConflictsFrom(ConflictTargetInfo(seq), 1)
    IN  [ has_conflicts |-> conflicts # <<>>,
          conflicts |-> conflicts,
          suggestions |-> IF conflicts # <<>> THEN Suggestions ELSE <<>> ]

\* ---------------------------------------------------------------------------
\* Specification SpecConf: one call of detect_conflicts
\* ---------------------------------------------------------------------------
\* sky objects: never up; up 00:10-01:30; up 00:50-12:00; up from 12:00 on;
\* up at midnight, down at 00:10 and up again from 12:00
TrackNever == [cuts |-> <<>>, alts |-> <<-10>>]
TrackEarly == [cuts |-> <<1, 9>>, alts |-> <<-10, 45, -10>>]
TrackMorning == [cuts |-> <<5, 72>>, alts |-> <<-10, 25, -10>>]
TrackAfternoon == [cuts |-> <<72>>, alts |-> <<-10, 45>>]
TrackSplit == [cuts |-> <<1, 72>>, alts |-> <<25, -10, 45>>]

\* what is asked of a target: nothing left to do; 10 x 60 s; 100 x 3600 s
\* (exposure times in 1/TimeScale seconds)
WorkNone == [delay |-> 0, exposures |-> << Exposure(TRUE, 60 * TimeScale, 10, 10) >>]
WorkShort == [delay |-> 0, exposures |-> << Exposure(TRUE, 60 * TimeScale, 10, 0) >>]
WorkLong == [delay |-> 0, exposures |-> << Exposure(TRUE, 3600 * TimeScale, 100, 0) >>]

\* a place in the sky: right ascension in degrees on the celestial equator
\* (declination 0) and the score calculate_observation_quality gives a target
\* there at its peak instant
SkySpots == { [ra_degrees |-> 0, quality |-> 70],
              [ra_degrees |-> 10, quality |-> 35],
              [ra_degrees |-> 200, quality |-> 70] }

\* SimpleTarget; `coordinates` carries what the astronomy functions return
\* for these coordinates at the location and date of the call
SimpleTarget(id, name, spot, track, work) ==
    [ id |-> id, target_name |-> name,
      coordinates |-> [ ra_degrees |-> spot.ra_degrees,
                        quality_at_peak |-> spot.quality, track |-> track ],
      delay |-> work.delay, exposures |-> work.exposures ]

\* ids as the caller assigned them: all different, or all the same
IdSchemes(n) == { [i \in 1..n |-> ToString(i)], [i \in 1..n |-> "1"] }

ConfBodies ==
    { [track |-> tr, work |-> w] :
        tr \in {TrackNever, TrackEarly, TrackMorning, TrackAfternoon},
        w \in {WorkNone, WorkShort, WorkLong} }

\* the sequences of n targets
ConfSequences(n) ==
    { [ targets |-> [i \in 1..n |->
            SimpleTarget(ids[i], "T" \o ToString(i),
                         [ra_degrees |-> 0, quality |-> 70],
                         b[i].track, b[i].work)],
        estimated_download_time |-> 5 * TimeScale ] :
      b \in [1..n -> ConfBodies], ids \in IdSchemes(n) }

InitConf ==
    /\ VisIdle
    /\ OptIdle
    /\ ParIdle
    /\ ExtIdle
    /\ \E n \in 0..MaxTargets : sequence \in ConfSequences(n)
    /\ conflict_result = None

DetectConflicts ==
    /\ is_none(conflict_result)
    /\ conflict_result' = Some(detect_conflicts(sequence))
    /\ UNCHANGED <<visVars, sequence, optVars, parVars, extVars>>

NextConf == DetectConflicts

SpecConf == InitConf /\ [][NextConf]_vars

\* ---------------------------------------------------------------------------
\* optimize_sequence (sequence_optimizer.rs)
\* ---------------------------------------------------------------------------
Strategies == { "MaxAltitude", "TransitTime", "VisibilityStart",
                "VisibilityDuration", "MinimizeSlew", "MoonAvoidance", "Combined" }

\* calculate_observation_quality(&target.coordinates, location,
\* window.max_altitude_time).score
calculate_observation_quality_score(coordinates) == coordinates.quality_at_peak

\* one (id, target, window, quality) tuple of target_info
OptInfoOf(t) ==
    LET window == TargetWindow(t)
    IN  [ id |-> t.id, target |-> t, window |-> window,
          quality |-> IF window.is_visible
                      THEN calculate_observation_quality_score(t.coordinates)
                      ELSE 0 ]

\* a target_info that keeps only the targets with a window
RECURSIVE OptVisibleInfoFrom(_, _)
OptVisibleInfoFrom(seq, i) ==
    IF i > Len(seq.targets) THEN <<>>
    ELSE (IF TargetWindow(seq.targets[i]).is_visible
          THEN << OptInfoOf(seq.targets[i]) >> ELSE <<>>)
         \o OptVisibleInfoFrom(seq, i + 1)

OptTargetInfoVisibleOnly(seq) == OptVisibleInfoFrom(seq, 1)

\* target_info: `sequence.targets.iter().map(...).collect()`
OptTargetInfo(seq) == [ i \in 1..Len(seq.targets) |-> OptInfoOf(seq.targets[i]) ]

\* the key each sorting strategy orders by, ascending; a descending order
\* (`b.partial_cmp(a)`) is the ascending order of the negated key.  The
\* Combined score altitude/90*30 + quality*0.5 + duration_hours/12*20 is
\* taken times 36: 12*altitude + 18*quality + duration_minutes.
SortKey(strat, a) ==
    CASE strat = "MaxAltitude" -> -a.window.max_altitude
      [] strat = "TransitTime" -> a.window.max_altitude_time
      [] strat = "VisibilityStart" -> a.window.start_time
      [] strat = "VisibilityDuration" -> -a.window.duration_minutes
      [] strat = "MoonAvoidance" -> -a.quality
      [] strat = "Combined" ->
             -(12 * a.window.max_altitude + 18 * a.quality
                   + a.window.duration_minutes)

\* an insertion that puts x in front of the elements that compare equal
RECURSIVE InsertSortedBeforeEquals(_, _, _, _)
InsertSortedBeforeEquals(strat, sorted, x, k) ==
    IF k > Len(sorted) THEN Append(sorted, x)
    ELSE IF SortKey(strat, x) <= SortKey(strat, sorted[k])
         THEN SubSeq(sorted, 1, k - 1) \o <<x>> \o SubSeq(sorted, k, Len(sorted))
         ELSE InsertSortedBeforeEquals(strat, sorted, x, k + 1)

\* slice::sort_by is stable: x goes in front of the first element that is
\* strictly greater, behind everything that compares equal
RECURSIVE InsertSorted(_, _, _, _)
InsertSorted(strat, sorted, x, k) ==
    IF k > Len(sorted) THEN Append(sorted, x)
    ELSE IF SortKey(strat, x) < SortKey(strat, sorted[k])
         THEN SubSeq(sorted, 1, k - 1) \o <<x>> \o SubSeq(sorted, k, Len(sorted))
         ELSE InsertSorted(strat, sorted, x, k + 1)

RECURSIVE SortFrom(_, _, _, _)
SortFrom(strat, info, i, sorted) ==
    IF i > Len(info) THEN sorted
    ELSE SortFrom(strat, info, i + 1, InsertSorted(strat, sorted, info[i], 1))

sort_by(strat, info) == SortFrom(strat, info, 1, <<>>)

\* coordinates::angular_separation for two points of declination 0:
\* cos_sep = cos(delta_ra), so the separation is |delta_ra| folded into [0, 180]
angular_distance(c1, c2) ==
    LET d == IF c1.ra_degrees >= c2.ra_degrees
             THEN (c1.ra_degrees - c2.ra_degrees) % 360
             ELSE (c2.ra_degrees - c1.ra_degrees) % 360
    IN  IF d > 180 THEN 360 - d ELSE d

RemoveAt(seq, k) == SubSeq(seq, 1, k - 1) \o SubSeq(seq, k + 1, Len(seq))

\* a tour that starts at the first target whatever its window
FirstIdxAlways(targets) == 1

\* `targets.iter().position(|(_, _, w, _)| w.is_visible).unwrap_or(0)`, 1-based
FirstVisibleIdx(targets) ==
    IF \E k \in 1..Len(targets) : targets[k].window.is_visible
    THEN MinOf({k \in 1..Len(targets) : targets[k].window.is_visible})
    ELSE 1

\* the nearest remaining target; `if dist < min_dist` keeps the first of equals
NearestIdx(last, targets) ==
    MinOf({ k \in 1..Len(targets) :
              \A j \in 1..Len(targets) :
                  angular_distance(last.target.coordinates, targets[k].target.coordinates)
                      <= angular_distance(last.target.coordinates,
                                          targets[j].target.coordinates) })

\* `while !targets.is_empty()`
RECURSIVE SlewLoop(_, _)
SlewLoop(result, targets) ==
    IF targets = <<>> THEN result
    ELSE LET min_idx == NearestIdx(result[Len(result)], targets)
         IN  SlewLoop(Append(result, targets[min_idx]), RemoveAt(targets, min_idx))

optimize_slew_order(targets) ==
    IF Len(targets) <= 2 THEN targets
    ELSE LET first_idx == FirstVisibleIdx(targets)
         IN  SlewLoop(<<targets[first_idx]>>, RemoveAt(targets, first_idx))

\* estimate_slew_time, in thirds of a second: dist / 3.0 + 5.0 per move
RECURSIVE SlewTimeFrom(_, _)
SlewTimeFrom(targets, i) ==
    IF i > Len(targets) THEN 0
    ELSE angular_distance(targets[i - 1].target.coordinates,
                          targets[i].target.coordinates) + 15
         + SlewTimeFrom(targets, i + 1)

estimate_slew_time(targets) ==
    IF Len(targets) < 2 THEN 0 ELSE SlewTimeFrom(targets, 2)

\* calculate_total_runtime, in 1/TimeScale seconds
RECURSIVE TotalRuntimeFrom(_, _)
TotalRuntimeFrom(seq, i) ==
    IF i > Len(seq.targets) THEN 0
    ELSE target_runtime(seq.targets[i], seq.estimated_download_time)
         + TotalRuntimeFrom(seq, i + 1)

calculate_total_runtime(seq) == TotalRuntimeFrom(seq, 1)

Improvement(strat) ==
    CASE strat = "MaxAltitude" -> "Ordered by maximum altitude"
      [] strat = "TransitTime" -> "Ordered by transit time"
      [] strat = "VisibilityStart" -> "Ordered by visibility window start"
      [] strat = "VisibilityDuration" -> "Ordered by visibility duration"
      [] strat = "MinimizeSlew" -> "Optimized to minimize slew time"
      [] strat = "MoonAvoidance" -> "Ordered by moon avoidance score"
      [] strat = "Combined" -> "Combined optimization applied"

\* `for (_id, target, window, _) in &target_info { if !window.is_visible`
RECURSIVE WarningsFrom(_, _)
WarningsFrom(info, i) ==
    IF i > Len(info) THEN <<>>
    ELSE (IF ~info[i].window.is_visible
          THEN << info[i].target.target_name >> ELSE <<>>)
         \o WarningsFrom(info, i + 1)

optimize_sequence(seq, strat) ==
    LET target_info == OptTargetInfo(seq)
        ordered == IF strat = "MinimizeSlew"
                   THEN optimize_slew_order(target_info)
                   ELSE sort_by(strat, target_info)
    IN  [ success |-> TRUE,
          original_order |-> [i \in 1..Len(seq.targets) |-> seq.targets[i].id],
          optimized_order |-> [i \in 1..Len(ordered) |-> ordered[i].id],
          improvements |-> << Improvement(strat) >>,
          warnings |-> WarningsFrom(ordered, 1),
          estimated_total_runtime |-> calculate_total_runtime(seq),
          estimated_slew_time |-> estimate_slew_time(ordered) ]

\* ---------------------------------------------------------------------------
\* Specification SpecOpt: one call of optimize_sequence
\* ---------------------------------------------------------------------------
OptBodies ==
    { [track |-> tr, spot |-> sp] :
        tr \in {TrackNever, TrackMorning, TrackSplit}, sp \in SkySpots }

\* the sequences of n targets
OptSequences(n) ==
    { [ targets |-> [i \in 1..n |->
            SimpleTarget(ids[i], "T" \o ToString(i),
                         b[i].spot, b[i].track, WorkShort)],
        estimated_download_time |-> 5 * TimeScale ] :
      b \in [1..n -> OptBodies], ids \in IdSchemes(n) }

InitOpt ==
    /\ VisIdle
    /\ ParIdle
    /\ ExtIdle
    /\ \E n \in 0..MaxTargets : sequence \in OptSequences(n)
    /\ conflict_result = None
    /\ strategy \in Strategies
    /\ opt_result = None

OptimizeSequence ==
    /\ is_none(opt_result)
    /\ opt_result' = Some(optimize_sequence(sequence, strategy))
    /\ UNCHANGED <<visVars, sequence, conflict_result, strategy, parVars, extVars>>

NextOpt == OptimizeSequence

SpecOpt == InitOpt /\ [][NextOpt]_vars

\* ---------------------------------------------------------------------------
\* Batch functions: batch_calculate_positions (astronomy.rs),
\* calculate_etas_parallel, calculate_visibility_parallel, get_schedule_info
\* (sequence_optimizer.rs)
\* ---------------------------------------------------------------------------
\* `if sequence.targets.len() > 10`
PARALLEL_THRESHOLD == 10

\* `runtime as i64`: an f64 of 1/TimeScale seconds cut to whole seconds
TruncSeconds(r) == IF r >= 0 THEN r \div TimeScale ELSE -((-r) \div TimeScale)

\* the `datetime` of batch_calculate_positions, as a sample of the day, and
\* the `start_time` of calculate_etas_parallel
BATCH_SAMPLE == 72
ETA_START_TIME == 100

\* 1 / (cos z + 0.50572 (96.07995 - z)^-1.6364) with z = 90 - altitude, in
\* thousandths, at the altitudes of the model that are not negative
KastenYoung(altitude) ==
    CASE altitude = 0 -> 37920
      [] altitude = 1 -> 26311
      [] altitude = 25 -> 2356
      [] altitude = 45 -> 1413
      [] altitude = 90 -> 1000

\* an air mass that is refused below the horizon only
air_mass_at_horizon(altitude) ==
    IF altitude < 0 THEN None ELSE Some(KastenYoung(altitude))

\* air_mass: `if altitude <= 0.0 { return None; }`
air_mass(altitude) ==
    IF altitude <= 0 THEN None ELSE Some(KastenYoung(altitude))

\* one element of batch_calculate_positions (azimuth and hour angle are not
\* carried)
BatchCoordinateResult(t, min_altitude) ==
    LET alt == ra_dec_to_alt_az(t.coordinates.track, BATCH_SAMPLE)
    IN  [ id |-> t.id, altitude |-> alt, is_visible |-> alt >= min_altitude,
          air_mass |-> air_mass(alt) ]

\* batch_calculate_positions: `targets.iter().map(...).collect()`
batch_calculate_positions(targets, min_altitude) ==
    [i \in 1..Len(targets) |-> BatchCoordinateResult(targets[i], min_altitude)]

\* one element of calculate_visibility_parallel: (target.id, window)
VisibilityEntry(t) ==
    [ id |-> t.id, window |-> TargetWindow(t) ]

\* one element of get_schedule_info
TargetScheduleInfo(seq, t) ==
    LET window == TargetWindow(t)
        runtime == target_runtime(t, seq.estimated_download_time)
        optimal_start ==
            IF window.is_visible
            THEN Some(window.max_altitude_time - 60 * (TruncSeconds(runtime) \div 120))
            ELSE None
    IN  [ id |-> t.id, target_name |-> t.target_name,
          visibility_window |-> window,
          optimal_start_time |-> optimal_start,
          optimal_end_time |->
              IF is_some(optimal_start)
              THEN Some(unwrap(optimal_start) + TruncSeconds(runtime)) ELSE None,
          quality_score |-> IF window.is_visible
                            THEN calculate_observation_quality_score(t.coordinates)
                            ELSE 0,
          conflicts |-> <<>> ]

\* an offset that adds the runtimes before cutting the sum to whole seconds
RECURSIVE SumRuntimes(_, _)
SumRuntimes(seq, idx) ==
    IF idx <= 1 THEN 0
    ELSE SumRuntimes(seq, idx - 1)
         + target_runtime(seq.targets[idx - 1], seq.estimated_download_time)

EtaOffsetUntruncated(seq, idx) == TruncSeconds(SumRuntimes(seq, idx))

\* `sequence.targets[..idx].iter().map(|t| t.runtime(download_time) as i64).sum()`
RECURSIVE EtaOffset(_, _)
EtaOffset(seq, idx) ==
    IF idx <= 1 THEN 0
    ELSE EtaOffset(seq, idx - 1)
         + TruncSeconds(target_runtime(seq.targets[idx - 1], seq.estimated_download_time))

\* an element of the parallel branch that adds the runtimes before it cuts
\* eta_end to whole seconds
EtaParallelEntryLateCut(seq, idx, start_time) ==
    LET runtime == target_runtime(seq.targets[idx], seq.estimated_download_time)
        eta_start == start_time + EtaOffset(seq, idx)
    IN  [ id |-> seq.targets[idx].id, runtime |-> runtime,
          eta_start |-> Some(eta_start),
          eta_end |-> Some(start_time + TruncSeconds(SumRuntimes(seq, idx + 1))) ]

\* one element of the parallel branch of calculate_etas_parallel
EtaParallelEntry(seq, idx, start_time) ==
    LET runtime == target_runtime(seq.targets[idx], seq.estimated_download_time)
        eta_start == start_time + EtaOffset(seq, idx)
    IN  [ id |-> seq.targets[idx].id, runtime |-> runtime,
          eta_start |-> Some(eta_start),
          eta_end |-> Some(eta_start + TruncSeconds(runtime)) ]

\* one element of the sequential branch, pushed with the running current_time
EtaSequentialEntry(seq, idx, now) ==
    LET runtime == target_runtime(seq.targets[idx], seq.estimated_download_time)
    IN  [ id |-> seq.targets[idx].id, runtime |-> runtime,
          eta_start |-> Some(now),
          eta_end |-> Some(now + TruncSeconds(runtime)) ]

\* a collect that appends each element when its evaluation finishes
StoreInCompletionOrder(slots, idx, r) ==
    LET free == MinOf({k \in 1..Len(slots) : is_none(slots[k])})
    IN  [slots EXCEPT ![free] = Some(r)]

\* rayon's collect of an indexed parallel iterator and Iterator::collect of a
\* sequential one: element idx of the input lands in place idx of the Vec
StoreAtIndex(slots, idx, r) == [slots EXCEPT ![idx] = Some(r)]

\* ---------------------------------------------------------------------------
\* Specification SpecPar: one call of a batch function, its per-target
\* evaluations finishing in any order the iterator allows
\* ---------------------------------------------------------------------------
\* 1 x 0.5 s; a delay in front of a disabled, a finished and a live exposure
WorkHalf == [delay |-> 0, exposures |-> << Exposure(TRUE, 1, 1, 0) >>]
WorkDelayed ==
    [ delay |-> 30,
      exposures |-> << Exposure(FALSE, 60 * TimeScale, 10, 0),
                       Exposure(TRUE, 60 * TimeScale, 3, 5),
                       Exposure(TRUE, 20 * TimeScale, 4, 1) >> ]

ParBodies ==
    { [track |-> TrackNever, work |-> WorkNone],
      [track |-> TrackMorning, work |-> WorkShort],
      [track |-> TrackSplit, work |-> WorkDelayed],
      [track |-> TrackEarly, work |-> WorkHalf] }

\* target lists that repeat a pattern of one or two kinds of target
ParPatterns == UNION { [1..k -> ParBodies] : k \in 1..2 }

ParSequences(maxlen) ==
    { [ targets |-> [i \in 1..n |->
            LET b == pat[((i - 1) % Len(pat)) + 1]
            IN  SimpleTarget(ToString(i), "T" \o ToString(i),
                             [ra_degrees |-> 0, quality |-> 70], b.track, b.work)],
        estimated_download_time |-> dl ] :
      n \in 0..maxlen, pat \in ParPatterns, dl \in {0, 5 * TimeScale} }

ParOps == { "batch_calculate_positions", "calculate_visibility_parallel",
            "get_schedule_info", "calculate_etas_parallel" }

InitPar ==
    /\ VisIdle
    /\ OptIdle
    /\ ExtIdle
    /\ conflict_result = None
    /\ par_op \in ParOps
    /\ sequence \in ParSequences(IF par_op = "calculate_etas_parallel"
                                 THEN MaxEtaTargets ELSE MaxTargets)
    /\ par_pending = 1..Len(sequence.targets)
    /\ par_slots = [i \in 1..Len(sequence.targets) |-> None]
    /\ current_time = ETA_START_TIME
    /\ par_out_of_order = FALSE
    /\ par_result = None

ParUnchanged ==
    UNCHANGED <<visVars, sequence, conflict_result, optVars, par_op, extVars>>

\* batch_calculate_positions: `targets.iter().map(...)`, in input order
BatchPositionsStep ==
    /\ par_op = "batch_calculate_positions"
    /\ par_pending # {}
    /\ LET idx == MinOf(par_pending)
       IN  /\ par_slots' = StoreAtIndex(par_slots, idx,
                  BatchCoordinateResult(sequence.targets[idx], OPTIMIZER_MIN_ALTITUDE))
           /\ par_pending' = par_pending \ {idx}
    /\ UNCHANGED <<current_time, par_out_of_order, par_result>>
    /\ ParUnchanged

\* calculate_visibility_parallel: `targets.par_iter().map(...)`, any order
VisibilityParallelTask(idx) ==
    /\ par_op = "calculate_visibility_parallel"
    /\ idx \in par_pending
    /\ par_slots' = StoreAtIndex(par_slots, idx, VisibilityEntry(sequence.targets[idx]))
    /\ par_pending' = par_pending \ {idx}
    /\ par_out_of_order' = (par_out_of_order \/ \E k \in par_pending : k < idx)
    /\ UNCHANGED <<current_time, par_result>>
    /\ ParUnchanged

\* get_schedule_info: `sequence.targets.par_iter().map(...)`, any order
ScheduleInfoTask(idx) ==
    /\ par_op = "get_schedule_info"
    /\ idx \in par_pending
    /\ par_slots' = StoreAtIndex(par_slots, idx,
           TargetScheduleInfo(sequence, sequence.targets[idx]))
    /\ par_pending' = par_pending \ {idx}
    /\ par_out_of_order' = (par_out_of_order \/ \E k \in par_pending : k < idx)
    /\ UNCHANGED <<current_time, par_result>>
    /\ ParUnchanged

\* calculate_etas_parallel, more than 10 targets:
\* `sequence.targets.par_iter().enumerate().map(...)`, any order
EtasParallelTask(idx) ==
    /\ par_op = "calculate_etas_parallel"
    /\ Len(sequence.targets) > PARALLEL_THRESHOLD
    /\ idx \in par_pending
    /\ par_slots' = StoreAtIndex(par_slots, idx,
           EtaParallelEntry(sequence, idx, ETA_START_TIME))
    /\ par_pending' = par_pending \ {idx}
    /\ par_out_of_order' = (par_out_of_order \/ \E k \in par_pending : k < idx)
    /\ UNCHANGED <<current_time, par_result>>
    /\ ParUnchanged

\* calculate_etas_parallel, at most 10 targets: `for target in &sequence.targets`
EtasSequentialStep ==
    /\ par_op = "calculate_etas_parallel"
    /\ Len(sequence.targets) <= PARALLEL_THRESHOLD
    /\ par_pending # {}
    /\ LET idx == MinOf(par_pending)
           entry == EtaSequentialEntry(sequence, idx, current_time)
       IN  /\ par_slots' = StoreAtIndex(par_slots, idx, entry)
           /\ par_pending' = par_pending \ {idx}
           /\ current_time' = unwrap(entry.eta_end)
    /\ UNCHANGED <<par_out_of_order, par_result>>
    /\ ParUnchanged

\* every evaluation has finished: the collected Vec is returned
ParReturn ==
    /\ par_op \in ParOps
    /\ par_pending = {}
    /\ is_none(par_result)
    /\ par_result' = Some([i \in 1..Len(par_slots) |-> unwrap(par_slots[i])])
    /\ UNCHANGED <<par_pending, par_slots, current_time, par_out_of_order>>
    /\ ParUnchanged

NextPar ==
    \/ BatchPositionsStep
    \/ \E idx \in 1..Len(sequence.targets) : VisibilityParallelTask(idx)
    \/ \E idx \in 1..Len(sequence.targets) : ScheduleInfoTask(idx)
    \/ \E idx \in 1..Len(sequence.targets) : EtasParallelTask(idx)
    \/ EtasSequentialStep
    \/ ParReturn

SpecPar == InitPar /\ [][NextPar]_vars

\* ---------------------------------------------------------------------------
\* apply_optimized_order (sequence_optimizer.rs)
\* ---------------------------------------------------------------------------
\* most ids in the `order` argument of apply_optimized_order
MaxOrderLen == 4

\* `sequence.targets.iter().find(|t| &t.id == id)`: the first target of that id
FindById(targets, id) ==
    LET hits == {i \in 1..Len(targets) : targets[i].id = id}
    IN  IF hits = {} THEN None ELSE Some(targets[MinOf(hits)])

\* the loop `for id in order` from place k on: a found target is pushed
RECURSIVE ApplyOrderFrom(_, _, _)
ApplyOrderFrom(targets, order, k) ==
    IF k > Len(order) THEN <<>>
    ELSE FindById(targets, order[k]) \o ApplyOrderFrom(targets, order, k + 1)

\* an application that keeps the targets named in `order` where they stood
apply_optimized_order_retain(targets, order) ==
    SelectSeq(targets, LAMBDA t : \E k \in 1..Len(order) : order[k] = t.id)

\* apply_optimized_order: the value assigned to sequence.targets
apply_optimized_order(targets, order) == ApplyOrderFrom(targets, order, 1)

\* ---------------------------------------------------------------------------
\* Specification SpecApply: one call of apply_optimized_order
\* ---------------------------------------------------------------------------
AppBodies ==
    { [track |-> TrackMorning, work |-> WorkShort],
      [track |-> TrackNever, work |-> WorkLong] }

\* the sequences of n targets
AppSequences(n) ==
    { [ targets |-> [i \in 1..n |->
            SimpleTarget(ids[i], "T" \o ToString(i),
                         [ra_degrees |-> 0, quality |-> 70],
                         b[i].track, b[i].work)],
        estimated_download_time |-> 5 * TimeScale ] :
      b \in [1..n -> AppBodies], ids \in IdSchemes(n) }

\* the ids an order may name: those of n targets and one no target has
OrderIds(n) == {ToString(i) : i \in 1..n} \cup {"0"}

InitApply ==
    /\ VisIdle
    /\ OptIdle
    /\ ParIdle
    /\ CallIdle
    /\ conflict_result = None
    /\ \E n \in 0..MaxTargets :
           /\ sequence \in AppSequences(n)
           /\ \E len \in 0..MaxOrderLen : apply_order \in [1..len -> OrderIds(n)]
    /\ apply_original = sequence.targets
    /\ apply_done = FALSE

ApplyOptimizedOrder ==
    /\ ~apply_done
    /\ sequence' = [sequence EXCEPT
                       !.targets = apply_optimized_order(sequence.targets, apply_order)]
    /\ apply_done' = TRUE
    /\ UNCHANGED <<apply_order, apply_original>>
    /\ UNCHANGED <<visVars, conflict_result, optVars, parVars, callVars>>

NextApply == ApplyOptimizedOrder

SpecApply == InitApply /\ [][NextApply]_vars

\* ---------------------------------------------------------------------------
\* calculate_observation_quality (astronomy.rs)
\* ---------------------------------------------------------------------------
\* An f64 that may be NaN (asin and acos of a value rounding has pushed past 1)
\* is [nan, v]; v is in whole degrees.  Every comparison with NaN is false.
F64(v) == [nan |-> FALSE, v |-> v]
NaN == [nan |-> TRUE, v |-> 0]
FLt(x, c) == ~x.nan /\ x.v < c
FGt(x, c) == ~x.nan /\ x.v > c

\* points are kept in 1/SCORE_SCALE of a point
SCORE_SCALE == 60

\* `let altitude_score = if target_alt < 0.0 {...}`
altitude_score(target_alt) ==
    IF FLt(target_alt, 0) THEN 0
    ELSE IF FLt(target_alt, 30) THEN (target_alt.v * 20 * SCORE_SCALE) \div 30
    ELSE IF FLt(target_alt, 60)
         THEN 20 * SCORE_SCALE + ((target_alt.v - 30) * 20 * SCORE_SCALE) \div 30
    ELSE 40 * SCORE_SCALE

\* `let twilight_score = if sun_alt > 0.0 {...}`
twilight_score(sun_alt) ==
    IF FGt(sun_alt, 0) THEN 0
    ELSE IF FGt(sun_alt, -6) THEN 5 * SCORE_SCALE
    ELSE IF FGt(sun_alt, -12) THEN 15 * SCORE_SCALE
    ELSE IF FGt(sun_alt, -18) THEN 25 * SCORE_SCALE
    ELSE 30 * SCORE_SCALE

\* a Moon score whose nearest band loses 10 points at full Moon
moon_score_steep(moon_illum, moon_sep) ==
    IF moon_illum < 10 THEN 30 * SCORE_SCALE
    ELSE IF FGt(moon_sep, 90) THEN 25 * SCORE_SCALE
    ELSE IF FGt(moon_sep, 60) THEN 20 * SCORE_SCALE - (moon_illum * 5 * SCORE_SCALE) \div 100
    ELSE IF FGt(moon_sep, 30) THEN 15 * SCORE_SCALE - (moon_illum * 10 * SCORE_SCALE) \div 100
    ELSE 5 * SCORE_SCALE - (moon_illum * 10 * SCORE_SCALE) \div 100

\* `let moon_score = if moon_illum < 10.0 {...}`; moon_illum in percent
moon_score(moon_illum, moon_sep) ==
    IF moon_illum < 10 THEN 30 * SCORE_SCALE
    ELSE IF FGt(moon_sep, 90) THEN 25 * SCORE_SCALE
    ELSE IF FGt(moon_sep, 60) THEN 20 * SCORE_SCALE - (moon_illum * 5 * SCORE_SCALE) \div 100
    ELSE IF FGt(moon_sep, 30) THEN 15 * SCORE_SCALE - (moon_illum * 10 * SCORE_SCALE) \div 100
    ELSE 5 * SCORE_SCALE - (moon_illum * 5 * SCORE_SCALE) \div 100

\* calculate_observation_quality, from the altitude of the target, the
\* altitude of the Sun, the Moon's illumination and its separation from the
\* target at the instant of the call
calculate_observation_quality(target_alt, sun_alt, moon_illum, moon_sep) ==
    LET a == altitude_score(target_alt)
        t == twilight_score(sun_alt)
        m == moon_score(moon_illum, moon_sep)
    IN  [ score |-> a + t + m,
          altitude_score |-> a,
          moon_score |-> m,
          twilight_score |-> t,
          recommendations |->
              (IF FLt(target_alt, 30)
               THEN << "Target altitude is low, consider waiting for higher altitude" >>
               ELSE <<>>)
              \o (IF FGt(sun_alt, -18)
                  THEN << "Not fully dark yet, wait for astronomical twilight" >>
                  ELSE <<>>)
              \o (IF moon_illum > 50 /\ FLt(moon_sep, 60)
                  THEN << "Bright Moon nearby, consider imaging narrowband" >>
                  ELSE <<>>) ]

\* ---------------------------------------------------------------------------
\* sun_altitude, find_sun_altitude_time, calculate_twilight (astronomy.rs)
\* ---------------------------------------------------------------------------
\* The UTC day of the `date` argument is cut into DAY_STEPS steps of
\* STEP_SECONDS; step 0 is 00:00, NOON_STEP is 12:00 (jd_noon), DAY_STEPS is
\* 24:00 (jd_noon + 0.5).  An altitude of the Sun is kept as its sine, in
\* 1/SIN_SCALE: sin(alt) = sin(lat) sin(dec) + cos(lat) cos(dec) cos(ha).
DAY_STEPS == 288
NOON_STEP == 144
STEP_SECONDS == 300
SIN_SCALE == 10000
\* the loop `for _ in 0..50`
BISECTION_STEPS == 50

\* SIN_SCALE * cos(2 pi k / DAY_STEPS) for k = 0..DAY_STEPS/4
CosQuarter ==
    << 10000, 9998, 9990, 9979, 9962, 9941, 9914, 9884, 9848, 9808, 9763, 9713,
       9659, 9600, 9537, 9469, 9397, 9320, 9239, 9153, 9063, 8969, 8870, 8767,
       8660, 8549, 8434, 8315, 8192, 8064, 7934, 7799, 7660, 7518, 7373, 7224,
       7071, 6915, 6756, 6593, 6428, 6259, 6088, 5913, 5736, 5556, 5373, 5188,
       5000, 4810, 4617, 4423, 4226, 4027, 3827, 3624, 3420, 3214, 3007, 2798,
       2588, 2377, 2164, 1951, 1736, 1521, 1305, 1089, 872, 654, 436, 218,
       0 >>

CosStep(k) ==
    LET m == k % DAY_STEPS
    IN  IF m <= 72 THEN CosQuarter[m + 1]
        ELSE IF m <= 144 THEN -CosQuarter[144 - m + 1]
        ELSE IF m <= 216 THEN -CosQuarter[m - 144 + 1]
        ELSE CosQuarter[288 - m + 1]

\* the target altitudes -0.833, -6.0, -12.0 and -18.0 degrees, as sines
SUNRISE_ALTITUDE == -145
CIVIL_ALTITUDE == -1045
NAUTICAL_ALTITUDE == -2079
ASTRONOMICAL_ALTITUDE == -3090

\* sun_altitude(location, jd) at step t of the day; `sun` holds
\* a = sin(lat) sin(dec), b = cos(lat) cos(dec) and the step t0 at which the
\* Sun is highest at the longitude of the location
sun_altitude(sun, t) == sun.a + (sun.b * CosStep(t - sun.t0)) \div SIN_SCALE

\* the loop of find_sun_altitude_time with n passes left
RECURSIVE SunBisect(_, _, _, _, _, _)
SunBisect(sun, target_altitude, rising, low, high, n) ==
    IF n = 0 THEN Some(((low + high) \div 2) * STEP_SECONDS)
    ELSE LET mid == (low + high) \div 2
             alt == sun_altitude(sun, mid)
         IN  IF alt = target_altitude THEN Some(mid * STEP_SECONDS)
             ELSE IF rising
                  THEN (IF alt < target_altitude
                        THEN SunBisect(sun, target_altitude, rising, mid, high, n - 1)
                        ELSE SunBisect(sun, target_altitude, rising, low, mid, n - 1))
                  ELSE (IF alt > target_altitude
                        THEN SunBisect(sun, target_altitude, rising, mid, high, n - 1)
                        ELSE SunBisect(sun, target_altitude, rising, low, mid, n - 1))

\* the (low, high) of the search: jd_noon - 0.5 .. jd_noon when rising,
\* jd_noon .. jd_noon + 0.5 otherwise
SearchLow(rising) == IF rising THEN 0 ELSE NOON_STEP
SearchHigh(rising) == IF rising THEN NOON_STEP ELSE DAY_STEPS

\* `if rising { if alt_low > target || alt_high < target { return None } }
\*  else if alt_low < target || alt_high > target { return None }`
SunNotReached(sun, target_altitude, rising) ==
    LET alt_low == sun_altitude(sun, SearchLow(rising))
        alt_high == sun_altitude(sun, SearchHigh(rising))
    IN  IF rising
        THEN alt_low > target_altitude \/ alt_high < target_altitude
        ELSE alt_low < target_altitude \/ alt_high > target_altitude

\* a search that answers with the start of its window
find_sun_altitude_time_window_start(sun, target_altitude, rising) ==
    IF SunNotReached(sun, target_altitude, rising) THEN None
    ELSE Some(SearchLow(rising) * STEP_SECONDS)

\* find_sun_altitude_time: Option of the instant, in seconds of the day
find_sun_altitude_time(sun, target_altitude, rising) ==
    IF SunNotReached(sun, target_altitude, rising) THEN None
    ELSE SunBisect(sun, target_altitude, rising,
                   SearchLow(rising), SearchHigh(rising), BISECTION_STEPS)

\* calculate_twilight (the `date` string is not carried)
calculate_twilight(sun) ==
    [ sunrise |-> find_sun_altitude_time(sun, SUNRISE_ALTITUDE, TRUE),
      sunset |-> find_sun_altitude_time(sun, SUNRISE_ALTITUDE, FALSE),
      civil_dawn |-> find_sun_altitude_time(sun, CIVIL_ALTITUDE, TRUE),
      civil_dusk |-> find_sun_altitude_time(sun, CIVIL_ALTITUDE, FALSE),
      nautical_dawn |-> find_sun_altitude_time(sun, NAUTICAL_ALTITUDE, TRUE),
      nautical_dusk |-> find_sun_altitude_time(sun, NAUTICAL_ALTITUDE, FALSE),
      astronomical_dawn |-> find_sun_altitude_time(sun, ASTRONOMICAL_ALTITUDE, TRUE),
      astronomical_dusk |-> find_sun_altitude_time(sun, ASTRONOMICAL_ALTITUDE, FALSE),
      is_polar_day |-> sun_altitude(sun, 0) > SUNRISE_ALTITUDE,
      is_polar_night |-> sun_altitude(sun, NOON_STEP) < SUNRISE_ALTITUDE ]

\* latitude and solar declination of a day: the equator at an equinox,
\* 40.7128 N, 60 N and 80 N at the solstices
SunEquator == [a |-> 0, b |-> 10000]
SunMidNorthJune == [a |-> 2595, b |-> 6954]
SunMidNorthDecember == [a |-> -2595, b |-> 6954]
SunHighNorthJune == [a |-> 3445, b |-> 4587]
SunPolarJune == [a |-> 3917, b |-> 1593]
SunPolarDecember == [a |-> -3917, b |-> 1593]
SunSeasons == { SunEquator, SunMidNorthJune, SunMidNorthDecember,
                SunHighNorthJune, SunPolarJune, SunPolarDecember }

\* every longitude: the Sun is highest at any step of the UTC day
SunDays == { [a |-> se.a, b |-> se.b, t0 |-> t0] :
             se \in SunSeasons, t0 \in 0..(DAY_STEPS - 1) }

\* ---------------------------------------------------------------------------
\* find_optimal_observation_time (astronomy.rs)
\* ---------------------------------------------------------------------------
\* `current += Duration::minutes(15)`
SAMPLE_SECONDS == 900

\* the Sun's altitude in degrees at `seconds` after 00:00 of the date, as far
\* as twilight_score can tell: one value inside each of its bands
sun_altitude_degrees(sun, seconds) ==
    LET alt == sun_altitude(sun, seconds \div STEP_SECONDS)
    IN  IF alt > 0 THEN F64(10)
        ELSE IF alt > CIVIL_ALTITUDE THEN F64(-3)
        ELSE IF alt > NAUTICAL_ALTITUDE THEN F64(-9)
        ELSE IF alt > ASTRONOMICAL_ALTITUDE THEN F64(-15)
        ELSE F64(-30)

\* the target's altitude `seconds` after 00:00 of the date; the track of one
\* day repeats on the next
TargetAltitudeAt(track, seconds) ==
    ra_dec_to_alt_az(track, (seconds \div 600) % SAMPLES)

\* calculate_observation_quality(coords, location, current).score
QualityAt(track, sun, moon, seconds) ==
    calculate_observation_quality(F64(TargetAltitudeAt(track, seconds)),
                                  sun_altitude_degrees(sun, seconds),
                                  moon.illum, moon.sep).score

\* a darkness window that ends at the dawn of the date itself
DarkEndSameDay(astronomical_dawn) == astronomical_dawn

\* `twilight.astronomical_dawn.map(|d| d + Duration::days(1))`
DarkEnd(astronomical_dawn) == astronomical_dawn + SECONDS_PER_DAY

\* the loop `while current < dark_end`; best is [time, score]
RECURSIVE OptimalScan(_, _, _, _, _, _, _)
OptimalScan(track, sun, moon, min_altitude, current, dark_end, best) ==
    IF ~(current < dark_end) THEN best.time
    ELSE LET score == QualityAt(track, sun, moon, current)
             next == IF /\ TargetAltitudeAt(track, current) >= min_altitude
                        /\ score > best.score
                     THEN [time |-> Some(current), score |-> score]
                     ELSE best
         IN  IF next.score >= -SCORE_SCALE
             THEN OptimalScan(track, sun, moon, min_altitude,
                              current + SAMPLE_SECONDS, dark_end, next)
             ELSE next.time

find_optimal_observation_time(track, sun, moon, min_altitude) ==
    LET twilight == calculate_twilight(sun)
    IN  IF is_none(twilight.astronomical_dusk) THEN None
        ELSE IF is_none(twilight.astronomical_dawn) THEN None
        ELSE OptimalScan(track, sun, moon, min_altitude,
                         unwrap(twilight.astronomical_dusk),
                         DarkEnd(unwrap(twilight.astronomical_dawn)),
                         [time |-> None, score |-> -SCORE_SCALE])

\* ---------------------------------------------------------------------------
\* Julian Day <-> DateTime with the calendar date (astronomy.rs)
\* ---------------------------------------------------------------------------
\* A DateTime<Utc> with its date is [year, month, day, second]: a day of
\* chrono's proleptic Gregorian calendar and the second of that day.  A Julian
\* Day with its date is [day, grid]: day = floor(jd + 0.5) and the f64 grid
\* steps of jd + 0.5 after it.  Years 1031 to 6759 keep every intermediate sum
\* of datetime_to_jd in [2^21, 2^22).
IsLeapYear(y) == (y % 4 = 0 /\ y % 100 # 0) \/ y % 400 = 0
DaysInMonth(y, m) ==
    IF m = 2 THEN (IF IsLeapYear(y) THEN 29 ELSE 28)
    ELSE IF m \in {4, 6, 9, 11} THEN 30 ELSE 31

\* NaiveDate::from_ymd_opt
IsDate(y, m, d) == m \in 1..12 /\ d \in 1..DaysInMonth(y, m)

\* second / 86400 of a day on the f64 grid, rounded to nearest:
\* 2^31 / 86400 = 24855 + 91/675, and 91 s / 675 is never half a step
SecondsToGrid(second) == second * 24855 + ((182 * second + 675) \div 1350)

\* datetime_to_jd: floor(365.25 (y + 4716)) + floor(30.6001 (m + 1))
\* + day_fraction + b - 1524.5, with b = 2 - a + floor(a / 4) for every date
datetime_to_jd(dt) ==
    LET y == IF dt.month <= 2 THEN dt.year - 1 ELSE dt.year
        m == IF dt.month <= 2 THEN dt.month + 12 ELSE dt.month
        a == y \div 100
        b == 2 - a + (a \div 4)
    IN  [ day |-> ((1461 * (y + 4716)) \div 4) + ((306001 * (m + 1)) \div 10000)
                  + dt.day + b - 1524,
          grid |-> SecondsToGrid(dt.second) ]

\* the year, month and day that jd_to_datetime computes from z
JdCalendarDate(z) ==
    LET alpha == (4 * z - 7468865) \div 146097
        a == IF z < 2299161 THEN z ELSE z + 1 + alpha - (alpha \div 4)
        b == a + 1524
        c == (20 * b - 2442) \div 7305
        d == (1461 * c) \div 4
        e == (10000 * (b - d)) \div 306001
        day == b - d - ((306001 * e) \div 10000)
        month == IF e < 14 THEN e - 1 ELSE e - 13
        year == IF month > 2 THEN c - 4716 ELSE c - 4715
    IN  [year |-> year, month |-> month, day |-> day]

\* jd_to_datetime with its date: from_ymd_opt(year, month, day) or 2000-01-01,
\* and_time(from_hms_opt(hour, minute, second)); the time is never refused
\* because floor(f * 86400) is below 86400
jd_to_datetime_utc(jd) ==
    LET cal == JdCalendarDate(jd.day)
        date == IF IsDate(cal.year, cal.month, cal.day) THEN cal
                ELSE [year |-> 2000, month |-> 1, day |-> 1]
    IN  [ year |-> date.year, month |-> date.month, day |-> date.day,
          second |-> jd_to_datetime([day |-> 0, grid |-> jd.grid]) ]

\* ---------------------------------------------------------------------------
\* Moon phase (astronomy.rs)
\* ---------------------------------------------------------------------------
\* Time is counted in thousandths of a day.  SYNODIC_MONTH = 29.530588853 days
\* is 29530 thousandths and a rest of 0.588853 thousandth; every instant of the
\* model is a whole number of thousandths after the new moon before it, so a
\* quantity `c * SYNODIC_MONTH - days_since_new` is never within 0.1
\* thousandth of a whole day and the f64 rounding of the code's products
\* cannot change its truncation.
SYNODIC_MONTH == 29530
MILLIDAYS == 1000

\* `x as i64` for x >= 0 given in thousandths of a day: the whole days
days_as_i64(x) == x \div MILLIDAYS

\* get_moon_phase_info for the instant `days_since_new` after the last new
\* moon (moon_phase: phase = days_since_new / SYNODIC_MONTH).  next_new_moon
\* and next_full_moon are datetime + Duration::days(..), given here as
\* thousandths of a day after the last new moon, like datetime.
\*   phase < 0.5  iff  2 * days_since_new < 29530.588853
\*   1.5 * SYNODIC_MONTH = 44295.8832795 thousandths
get_moon_phase_info(days_since_new) ==
    LET datetime == days_since_new
        days_to_new == SYNODIC_MONTH - days_since_new
        days_to_full == IF 2 * days_since_new <= SYNODIC_MONTH
                        THEN (SYNODIC_MONTH \div 2) - days_since_new
                        ELSE ((3 * SYNODIC_MONTH) \div 2) - days_since_new
    IN  [ age_days |-> days_since_new,
          next_new_moon |-> datetime + MILLIDAYS * days_as_i64(days_to_new),
          next_full_moon |-> datetime + MILLIDAYS * days_as_i64(days_to_full) ]

\* ---------------------------------------------------------------------------
\* Sidereal time and hour angle (astronomy.rs)
\* ---------------------------------------------------------------------------
\* f64::rem_euclid(360.0)
rem_euclid_360(x) == x % 360

\* gmst(jd) in whole degrees for jd = J2000 + hours / 24:
\* 280.46061837 + 360.98564736629 (jd - J2000), i.e. 15.04107 degrees an hour;
\* the terms in t^2 and t^3 stay below a degree
gmst(hours) == rem_euclid_360(280 + 15 * hours + ((4107 * hours) \div 100000))

\* lst(jd, longitude)
lst(hours, longitude) == rem_euclid_360(gmst(hours) + longitude)

\* an hour angle that is wrapped on the low side only
hour_angle_wrap_low(ra_hours, longitude, hours) ==
    LET ha == lst(hours, longitude) - ra_hours * 15
    IN  IF ha < -180 THEN ha + 360 ELSE ha

\* hour_angle: `if ha < -180.0 { ha + 360.0 } else if ha > 180.0 { ha - 360.0 }
\* else { ha }`
hour_angle(ra_hours, longitude, hours) ==
    LET ha == lst(hours, longitude) - ra_hours * 15
    IN  IF ha < -180 THEN ha + 360
        ELSE IF ha > 180 THEN ha - 360
        ELSE ha

\* ---------------------------------------------------------------------------
\* Specification SpecAstro: one call of a pure function of astronomy.rs
\* ---------------------------------------------------------------------------
\* altitudes on both sides of every threshold of the scores
TargetAlts == {F64(v) : v \in {-90, -1, 0, 15, 29, 30, 45, 59, 60, 90}} \cup {NaN}
SunAlts == {F64(v) : v \in {-90, -19, -18, -13, -12, -7, -6, -1, 0, 1, 90}} \cup {NaN}
MoonIllums == {0, 9, 10, 50, 51, 100}
MoonSeps == {F64(v) : v \in {0, 30, 31, 60, 61, 90, 91, 180}} \cup {NaN}

QualityCalls ==
    { [ fn |-> "calculate_observation_quality", target_alt |-> a, sun_alt |-> su,
        moon_illum |-> il, moon_sep |-> se ] :
      a \in TargetAlts, su \in SunAlts, il \in MoonIllums, se \in MoonSeps }

TwilightCalls == { [fn |-> "calculate_twilight", sun |-> sd] : sd \in SunDays }

\* the Moon of the night: new and far, or full and close to the target
Moons == { [illum |-> 0, sep |-> F64(91)], [illum |-> 100, sep |-> F64(20)] }

\* a target low from 12:00 on and high from 00:00 to 01:30
TrackLate == [cuts |-> <<9, 72>>, alts |-> <<45, -10, 25>>]

\* longitudes two hours apart
OptimalSunDays == { sd \in SunDays : sd.t0 % 24 = 0 }

OptimalTimeCalls ==
    { [ fn |-> "find_optimal_observation_time", track |-> tr, sun |-> sd,
        moon |-> mo, min_altitude |-> ma ] :
      tr \in {TrackNever, TrackEarly, TrackMorning, TrackAfternoon, TrackSplit,
               TrackLate},
      sd \in OptimalSunDays, mo \in Moons, ma \in MinAltitudes }

\* altitudes below, on and above the horizon
HorizonAltitudes == {-90, -10, -1, 0, 1, 25, 45, 90}

AirMassCalls == { [fn |-> "air_mass", altitude |-> a] : a \in HorizonAltitudes }

\* most (id, coordinates) pairs in one batch_calculate_positions call
MaxBatch == 2

\* a target that stands at `altitude` at the datetime of the call
BatchTarget(id, altitude) ==
    [ id |-> id, coordinates |-> [track |-> [cuts |-> <<>>, alts |-> <<altitude>>]] ]

BatchCalls ==
    { [ fn |-> "batch_calculate_positions",
        targets |-> [i \in 1..Len(alts) |-> BatchTarget(ToString(i), alts[i])],
        min_altitude |-> ma ] :
      alts \in UNION { [1..n -> HorizonAltitudes] : n \in 0..MaxBatch },
      ma \in {-20, 20} }

\* days on both sides of 1582-10-15 and seconds around the turns of the clock
RoundtripDates ==
    { <<2024, 2, 29>>, <<2000, 1, 1>>, <<1999, 12, 31>>, <<1582, 10, 15>>,
      <<1582, 10, 14>>, <<1500, 3, 10>>, <<1500, 1, 1>>, <<1200, 3, 1>> }
RoundtripSeconds == {0, 1, 59, 60, 3599, 3600, 43199, 43200, 43201, 86399}

RoundtripCalls ==
    { [ fn |-> "jd_roundtrip",
        original |-> [year |-> d[1], month |-> d[2], day |-> d[3], second |-> sec] ] :
      d \in RoundtripDates, sec \in RoundtripSeconds }

\* right ascensions in [0, 24), longitudes and hours after J2000
HourAngleRas == {0, 1, 6, 11, 12, 13, 14, 18, 23}
HourAngleLongitudes == {-180, -100, -74, 0, 30, 80, 139, 180}
HourAngleHours == {-50000, -1, 0, 1, 6, 12, 100, 217000}

HourAngleCalls ==
    { [fn |-> "hour_angle", ra_hours |-> ra, longitude |-> lon, hours |-> h] :
      ra \in HourAngleRas, lon \in HourAngleLongitudes, h \in HourAngleHours }

\* instants through one lunation: around new moon, the quarters, full moon
\* and the last day before each
MoonAges ==
    { 0, 1, 999, 1000, 7382, 13764, 13765, 13766, 14265, 14765, 14766, 15766,
      22148, 28529, 28530, 28531, 29030, 29530 }

MoonPhaseInfoCalls ==
    { [fn |-> "get_moon_phase_info", days_since_new |-> a] : a \in MoonAges }

InitAstro ==
    /\ VisIdle
    /\ OptIdle
    /\ ParIdle
    /\ AppIdle
    /\ sequence = [targets |-> <<>>, estimated_download_time |-> 0]
    /\ conflict_result = None
    /\ \/ call \in QualityCalls
       \/ call \in TwilightCalls
       \/ call \in OptimalTimeCalls
       \/ call \in AirMassCalls
       \/ call \in BatchCalls
       \/ call \in RoundtripCalls
       \/ call \in HourAngleCalls
       \/ call \in MoonPhaseInfoCalls
    /\ call_result = None

AstroUnchanged ==
    UNCHANGED <<visVars, sequence, conflict_result, optVars, parVars, appVars, call>>

CalculateObservationQuality ==
    /\ call.fn = "calculate_observation_quality"
    /\ is_none(call_result)
    /\ call_result' = Some(calculate_observation_quality(
                               call.target_alt, call.sun_alt,
                               call.moon_illum, call.moon_sep))
    /\ AstroUnchanged

CalculateTwilight ==
    /\ call.fn = "calculate_twilight"
    /\ is_none(call_result)
    /\ call_result' = Some(calculate_twilight(call.sun))
    /\ AstroUnchanged

FindOptimalObservationTime ==
    /\ call.fn = "find_optimal_observation_time"
    /\ is_none(call_result)
    /\ call_result' = Some(find_optimal_observation_time(
                               call.track, call.sun, call.moon, call.min_altitude))
    /\ AstroUnchanged

AirMass ==
    /\ call.fn = "air_mass"
    /\ is_none(call_result)
    /\ call_result' = Some(air_mass(call.altitude))
    /\ AstroUnchanged

BatchCalculatePositions ==
    /\ call.fn = "batch_calculate_positions"
    /\ is_none(call_result)
    /\ call_result' = Some(batch_calculate_positions(call.targets, call.min_altitude))
    /\ AstroUnchanged

\* `let jd = datetime_to_jd(original); let converted = jd_to_datetime(jd);`
JdRoundtrip ==
    /\ call.fn = "jd_roundtrip"
    /\ is_none(call_result)
    /\ call_result' = Some([ jd |-> datetime_to_jd(call.original),
                             converted |-> jd_to_datetime_utc(datetime_to_jd(call.original)) ])
    /\ AstroUnchanged

HourAngle ==
    /\ call.fn = "hour_angle"
    /\ is_none(call_result)
    /\ call_result' = Some(hour_angle(call.ra_hours, call.longitude, call.hours))
    /\ AstroUnchanged

GetMoonPhaseInfo ==
    /\ call.fn = "get_moon_phase_info"
    /\ is_none(call_result)
    /\ call_result' = Some(get_moon_phase_info(call.days_since_new))
    /\ AstroUnchanged

NextAstro ==
    \/ CalculateObservationQuality
    \/ GetMoonPhaseInfo
    \/ HourAngle
    \/ JdRoundtrip
    \/ AirMass
    \/ BatchCalculatePositions
    \/ FindOptimalObservationTime
    \/ CalculateTwilight

SpecAstro == InitAstro /\ [][NextAstro]_vars

\* ---------------------------------------------------------------------------
\* Commands (commands/astronomy_commands.rs, commands/optimizer_commands.rs):
\* the strings of a command are parsed before a service function is called
\* ---------------------------------------------------------------------------
\* Result<T, String>; `evaluations` counts the calls of service functions made
\* before the command returned
Ok(value, evaluations) ==
    [ok |-> TRUE, value |-> value, error |-> "", evaluations |-> evaluations]
Err(error) ==
    [ok |-> FALSE, value |-> <<>>, error |-> error, evaluations |-> 0]

\* a string is the sequence of its characters
Digits == {"0", "1", "2", "3", "4", "5", "6", "7", "8", "9"}
DigitValue(c) ==
    CASE c = "0" -> 0 [] c = "1" -> 1 [] c = "2" -> 2 [] c = "3" -> 3
      [] c = "4" -> 4 [] c = "5" -> 5 [] c = "6" -> 6 [] c = "7" -> 7
      [] c = "8" -> 8 [] c = "9" -> 9

IsNumber(cs) == Len(cs) > 0 /\ \A i \in 1..Len(cs) : cs[i] \in Digits

RECURSIVE Number(_)
Number(cs) ==
    IF cs = <<>> THEN 0
    ELSE Number(SubSeq(cs, 1, Len(cs) - 1)) * 10 + DigitValue(cs[Len(cs)])

\* the fields of cs between the occurrences of sep
RECURSIVE SplitAt(_, _)
SplitAt(cs, sep) ==
    IF \A i \in 1..Len(cs) : cs[i] # sep THEN <<cs>>
    ELSE LET k == MinOf({i \in 1..Len(cs) : cs[i] = sep})
         IN  <<SubSeq(cs, 1, k - 1)>> \o SplitAt(SubSeq(cs, k + 1, Len(cs)), sep)

\* NaiveDate::parse_from_str(s, "%Y-%m-%d"): a year, a month and a day of at
\* most two digits each, that name a day of the calendar
parse_date(cs) ==
    LET f == SplitAt(cs, "-")
    IN  IF /\ Len(f) = 3
           /\ \A i \in 1..3 : IsNumber(f[i])
           /\ Len(f[2]) <= 2
           /\ Len(f[3]) <= 2
           /\ IsDate(Number(f[1]), Number(f[2]), Number(f[3]))
        THEN Some([year |-> Number(f[1]), month |-> Number(f[2]), day |-> Number(f[3])])
        ELSE None

\* DateTime::parse_from_rfc3339 of the form yyyy-mm-ddThh:mm:ssZ (strings with
\* a fraction of a second or a numeric offset are not among the inputs)
parse_from_rfc3339(cs) ==
    LET parts == SplitAt(cs, "T")
        date == IF Len(parts) = 2 THEN parse_date(parts[1]) ELSE None
        clock == IF Len(parts) = 2 THEN SplitAt(parts[2], ":") ELSE <<>>
    IN  IF /\ is_some(date)
           /\ Len(SplitAt(parts[1], "-")[1]) = 4
           /\ Len(SplitAt(parts[1], "-")[2]) = 2
           /\ Len(SplitAt(parts[1], "-")[3]) = 2
           /\ Len(clock) = 3
           /\ Len(clock[1]) = 2 /\ IsNumber(clock[1]) /\ Number(clock[1]) <= 23
           /\ Len(clock[2]) = 2 /\ IsNumber(clock[2]) /\ Number(clock[2]) <= 59
           /\ Len(clock[3]) = 3 /\ clock[3][3] = "Z"
           /\ IsNumber(SubSeq(clock[3], 1, 2)) /\ Number(SubSeq(clock[3], 1, 2)) <= 60
        THEN Some([ date |-> unwrap(date),
                    seconds |-> Number(clock[1]) * 3600 + Number(clock[2]) * 60
                                + Number(SubSeq(clock[3], 1, 2)) ])
        ELSE None

\* `end < start` and `current <= end` of NaiveDate
DateBefore(a, b) ==
    \/ a.year < b.year
    \/ a.year = b.year /\ a.month < b.month
    \/ a.year = b.year /\ a.month = b.month /\ a.day < b.day

\* NaiveDate::succ_opt
succ_date(d) ==
    IF d.day < DaysInMonth(d.year, d.month) THEN [d EXCEPT !.day = d.day + 1]
    ELSE IF d.month < 12 THEN [d EXCEPT !.month = d.month + 1, !.day = 1]
    ELSE [year |-> d.year + 1, month |-> 1, day |-> 1]

\* `while current <= end { results.push(...(current ...)); current = succ }`:
\* the dates for which a window was calculated
RECURSIVE RangeDates(_, _)
RangeDates(current, end) ==
    IF DateBefore(end, current) THEN <<>>
    ELSE <<current>> \o RangeDates(succ_date(current), end)

\* calculate_visibility_range
calculate_visibility_range(start_date, end_date) ==
    LET start == parse_date(start_date)
        end == parse_date(end_date)
    IN  IF is_none(start) THEN Err("Invalid start date")
        ELSE IF is_none(end) THEN Err("Invalid end date")
        ELSE IF DateBefore(unwrap(end), unwrap(start))
        THEN Err("End date must be after start date")
        ELSE LET results == RangeDates(unwrap(start), unwrap(end))
             IN  Ok(results, Len(results))

\* str::to_lowercase of the selectors of the model
to_lowercase(s) ==
    CASE s = "MaxAltitude" -> "maxaltitude"
      [] s = "MINIMIZE_SLEW" -> "minimize_slew"
      [] s = "Combined" -> "combined"
      [] OTHER -> s

\* `match strategy.to_lowercase().as_str() { ... _ => Combined }`
strategy_from_name(name) ==
    LET s == to_lowercase(name)
    IN  CASE s \in {"max_altitude", "maxaltitude"} -> "MaxAltitude"
          [] s \in {"transit_time", "transittime"} -> "TransitTime"
          [] s \in {"visibility_start", "visibilitystart"} -> "VisibilityStart"
          [] s \in {"visibility_duration", "visibilityduration"} -> "VisibilityDuration"
          [] s \in {"minimize_slew", "minimizeslew"} -> "MinimizeSlew"
          [] s \in {"moon_avoidance", "moonavoidance"} -> "MoonAvoidance"
          [] OTHER -> "Combined"

\* optimize_target_order: the date and the strategy that optimize_sequence is
\* called with
optimize_target_order(date, name) ==
    LET d == parse_date(date)
    IN  IF is_none(d) THEN Err("Invalid date format")
        ELSE Ok([date |-> unwrap(d), strategy |-> strategy_from_name(name)], 1)

\* get_moon_phase: the instant that get_moon_phase_info is called with; an
\* absent datetime is `Utc::now()`
get_moon_phase(datetime) ==
    IF is_none(datetime) THEN Ok("now", 1)
    ELSE LET dt == parse_from_rfc3339(unwrap(datetime))
         IN  IF is_none(dt) THEN Err("Invalid datetime format")
             ELSE Ok(unwrap(dt), 1)

\* NaiveDate::format("%Y-%m-%d").to_string() for a year of four digits
DigitChars == <<"0", "1", "2", "3", "4", "5", "6", "7", "8", "9">>
Pad2(n) == <<DigitChars[(n \div 10) + 1], DigitChars[(n % 10) + 1]>>
format_date(d) ==
    Pad2(d.year \div 100) \o Pad2(d.year % 100) \o <<"-">> \o Pad2(d.month)
        \o <<"-">> \o Pad2(d.day)

\* the loop of find_best_observation_date from `current` on; score_of[date] is
\* the sum over the visible targets of get_schedule_info(sequence, location,
\* date) of quality_score + duration_hours * 5.0
RECURSIVE BestDateLoop(_, _, _, _, _)
BestDateLoop(start, end, score_of, current, acc) ==
    IF DateBefore(end, current) THEN acc
    ELSE LET score == score_of[current]
             better == score > acc.best_score
             scored == [ best_date |-> IF better THEN current ELSE acc.best_date,
                         best_score |-> IF better THEN score ELSE acc.best_score,
                         date_scores |-> Append(acc.date_scores,
                                                <<format_date(current), score>>) ]
             next == succ_date(current)
         IN  IF next = end /\ next # start THEN scored
             ELSE BestDateLoop(start, end, score_of, next, scored)

\* find_best_observation_date
find_best_observation_date(start_date, end_date, score_of) ==
    LET start == parse_date(start_date)
        end == parse_date(end_date)
    IN  IF is_none(start) THEN Err("Invalid start date")
        ELSE IF is_none(end) THEN Err("Invalid end date")
        ELSE IF DateBefore(unwrap(end), unwrap(start))
        THEN Err("End date must be after start date")
        ELSE LET r == BestDateLoop(unwrap(start), unwrap(end), score_of, unwrap(start),
                                   [ best_date |-> unwrap(start), best_score |-> 0,
                                     date_scores |-> <<>> ])
             IN  Ok([ best_date |-> format_date(r.best_date),
                      best_score |-> r.best_score,
                      date_scores |-> r.date_scores ], Len(r.date_scores))

\* ---------------------------------------------------------------------------
\* Specification SpecCmd: one call of a command with strings that are and
\* that are not well-formed
\* ---------------------------------------------------------------------------
WellFormedDates ==
    { <<"2", "0", "2", "4", "-", "0", "2", "-", "2", "8">>,
      <<"2", "0", "2", "4", "-", "0", "2", "-", "2", "9">>,
      <<"2", "0", "2", "4", "-", "0", "3", "-", "0", "1">> }
MalformedDates ==
    { <<"2", "0", "2", "4", "-", "0", "2", "-", "3", "0">>,
      <<"2", "0", "2", "3", "-", "0", "2", "-", "2", "9">>,
      <<"2", "0", "2", "4", "-", "1", "3", "-", "0", "1">>,
      <<"0", "2", "/", "2", "8", "/", "2", "0", "2", "4">>,
      <<"2", "0", "2", "4", "-", "0", "2", "-", "2", "x">>,
      <<>> }
DateStrings == WellFormedDates \cup MalformedDates

WellFormedInstants ==
    { <<"2", "0", "2", "4", "-", "0", "2", "-", "2", "9", "T", "1", "2", ":", "0", "0", ":", "0", "0", "Z">>,
      <<"2", "0", "2", "4", "-", "0", "3", "-", "0", "1", "T", "2", "3", ":", "5", "9", ":", "5", "9", "Z">> }
MalformedInstants ==
    { <<"2", "0", "2", "4", "-", "0", "2", "-", "2", "9">>,
      <<"2", "0", "2", "4", "-", "0", "2", "-", "3", "0", "T", "1", "2", ":", "0", "0", ":", "0", "0", "Z">>,
      <<"2", "0", "2", "4", "-", "0", "2", "-", "2", "9", "T", "2", "5", ":", "0", "0", ":", "0", "0", "Z">>,
      <<"2", "0", "2", "4", "-", "0", "2", "-", "2", "9", "T", "1", "2", ":", "0", "0", "Z">>,
      <<"t", "o", "m", "o", "r", "r", "o", "w">>,
      <<>> }
InstantStrings == WellFormedInstants \cup MalformedInstants

\* the names of get_optimization_strategies and the spellings the match takes
StrategyNames ==
    { "max_altitude", "MaxAltitude", "transit_time", "visibility_start",
      "visibilityduration", "MINIMIZE_SLEW", "moon_avoidance", "combined",
      "Combined" }
UnknownStrategyNames == { "max-altitude", "altitude", "fastest", "" }
StrategyStrings == StrategyNames \cup UnknownStrategyNames

VisibilityRangeCalls ==
    { [fn |-> "calculate_visibility_range", start_date |-> s, end_date |-> e] :
      s \in DateStrings, e \in DateStrings }
OptimizeOrderCalls ==
    { [fn |-> "optimize_target_order", date |-> d, strategy |-> st] :
      d \in DateStrings, st \in StrategyStrings }
MoonPhaseCalls ==
    { [fn |-> "get_moon_phase", datetime |-> dt] :
      dt \in {None} \cup { Some(s) : s \in InstantStrings } }

\* the calendar dates of the well-formed strings and the scores a sequence
\* may have on them
ScoredDates == { unwrap(parse_date(cs)) : cs \in WellFormedDates }
DateScores == [ScoredDates -> {0, 15}]

BestDateCalls ==
    { [ fn |-> "find_best_observation_date", start_date |-> st, end_date |-> en,
        score_of |-> sc ] :
      st \in DateStrings, en \in DateStrings, sc \in DateScores }

InitCmd ==
    /\ VisIdle
    /\ OptIdle
    /\ ParIdle
    /\ AppIdle
    /\ sequence = [targets |-> <<>>, estimated_download_time |-> 0]
    /\ conflict_result = None
    /\ \/ call \in VisibilityRangeCalls
       \/ call \in OptimizeOrderCalls
       \/ call \in MoonPhaseCalls
       \/ call \in BestDateCalls
    /\ call_result = None

CmdUnchanged ==
    UNCHANGED <<visVars, sequence, conflict_result, optVars, parVars, appVars, call>>

CalculateVisibilityRange ==
    /\ call.fn = "calculate_visibility_range"
    /\ is_none(call_result)
    /\ call_result' = Some(calculate_visibility_range(call.start_date, call.end_date))
    /\ CmdUnchanged

OptimizeTargetOrder ==
    /\ call.fn = "optimize_target_order"
    /\ is_none(call_result)
    /\ call_result' = Some(optimize_target_order(call.date, call.strategy))
    /\ CmdUnchanged

GetMoonPhase ==
    /\ call.fn = "get_moon_phase"
    /\ is_none(call_result)
    /\ call_result' = Some(get_moon_phase(call.datetime))
    /\ CmdUnchanged

FindBestObservationDate ==
    /\ call.fn = "find_best_observation_date"
    /\ is_none(call_result)
    /\ call_result' = Some(find_best_observation_date(call.start_date, call.end_date,
                                                      call.score_of))
    /\ CmdUnchanged

NextCmd ==
    \/ CalculateVisibilityRange
    \/ FindBestObservationDate
    \/ OptimizeTargetOrder
    \/ GetMoonPhase

SpecCmd == InitCmd /\ [][NextCmd]_vars

\* ---------------------------------------------------------------------------
\* merge_sequences (sequence_optimizer.rs)
\* ---------------------------------------------------------------------------
\* the k-th `uuid::Uuid::new_v4().to_string()` of the process: a version 4
\* UUID is taken to differ from every one issued before
Uuid(k) == "uuid-" \o ToString(k)

\* the targets of all sequences, one after the other
RECURSIVE ConcatTargets(_)
ConcatTargets(sequences) ==
    IF sequences = <<>> THEN <<>>
    ELSE Head(sequences).targets \o ConcatTargets(Tail(sequences))

\* a merge whose copies keep the id of the target they are cloned from
merge_sequences_keep_ids(sequences, title, issued) ==
    LET all == ConcatTargets(sequences)
    IN  [ id |-> Uuid(issued + 2),
          title |-> IF is_some(title) THEN unwrap(title) ELSE "Merged Sequence",
          targets |-> all,
          selected_target_id |-> Some(IF all # <<>> THEN all[1].id ELSE Uuid(issued + 1)),
          active_target_id |-> Some(IF all # <<>> THEN all[1].id ELSE Uuid(issued + 1)) ]

\* merge_sequences, called after `issued` UUIDs: SimpleSequence::new takes one
\* for its default target and one for the sequence, then each clone takes one;
\* with no target to select the ids of the cleared default target stay
merge_sequences(sequences, title, issued) ==
    LET all == ConcatTargets(sequences)
        targets == [k \in 1..Len(all) |-> [all[k] EXCEPT !.id = Uuid(issued + 2 + k)]]
    IN  [ id |-> Uuid(issued + 2),
          title |-> IF is_some(title) THEN unwrap(title) ELSE "Merged Sequence",
          targets |-> targets,
          selected_target_id |-> Some(IF targets # <<>> THEN targets[1].id ELSE Uuid(issued + 1)),
          active_target_id |-> Some(IF targets # <<>> THEN targets[1].id ELSE Uuid(issued + 1)) ]

\* ---------------------------------------------------------------------------
\* Specification SpecMerge: one call of merge_sequences
\* ---------------------------------------------------------------------------
\* most sequences in one call and most targets in one of them
MaxMergeSequences == 2
MaxMergeTargets == 2
\* UUIDs issued before the call; the ids of the inputs are among them
MERGE_ISSUED == 2

MergeTargets ==
    { SimpleTarget(Uuid(i), name, [ra_degrees |-> 0, quality |-> 70],
                   TrackMorning, WorkShort) :
      i \in 1..MERGE_ISSUED, name \in {"M31", "M42"} }

\* the sequences of n targets
MergeInputs(n) ==
    { [targets |-> t, estimated_download_time |-> 5 * TimeScale] :
      t \in [1..n -> MergeTargets] }

InitMerge ==
    /\ VisIdle
    /\ OptIdle
    /\ ParIdle
    /\ AppIdle
    /\ sequence = [targets |-> <<>>, estimated_download_time |-> 0]
    /\ conflict_result = None
    /\ \E count \in 0..MaxMergeSequences :
       \E seqs \in [1..count -> UNION {MergeInputs(n) : n \in 0..MaxMergeTargets}] :
       \E title \in {None, Some("Merged")} :
           call = [ fn |-> "merge_sequences", sequences |-> seqs,
                    title |-> title, issued |-> MERGE_ISSUED ]
    /\ call_result = None

MergeSequences ==
    /\ call.fn = "merge_sequences"
    /\ is_none(call_result)
    /\ call_result' = Some(merge_sequences(call.sequences, call.title, call.issued))
    /\ UNCHANGED <<visVars, sequence, conflict_result, optVars, parVars, appVars, call>>

NextMerge == MergeSequences

SpecMerge == InitMerge /\ [][NextMerge]_vars

\* ---------------------------------------------------------------------------
\* Properties of calculate_visibility_window (checked under SpecVis)
\* ---------------------------------------------------------------------------
VwDone == is_some(vw_window)
VwResult == unwrap(vw_window)
VisibleAt(i) == ra_dec_to_alt_az(vw_track, i) >= vw_min_altitude
\* the true instant of sample i: i ten-minute steps after midnight
SampleInstant(i) == i * (SECONDS_PER_DAY \div SAMPLES)
\* samples at which the scan sees the target come up / go down (the scan
\* starts with was_visible = false, so a target up at sample 0 comes up there)
UpCrossings == {i \in 0..SAMPLES : VisibleAt(i) /\ (i = 0 \/ ~VisibleAt(i - 1))}
DownCrossings == {i \in 1..SAMPLES : ~VisibleAt(i) /\ VisibleAt(i - 1)}
DownsAfterStart == {j \in DownCrossings : j > MinOf(UpCrossings)}

\* C5: the window starts at the instant of the first upward crossing and ends
\* at the instant of the first downward crossing after it; no later crossing
\* of the threshold moves either of them.
C5_FirstCrossingWins ==
    (VwDone /\ UpCrossings # {}) =>
        /\ VwResult.start_time = jd_to_datetime(SampleJd(MinOf(UpCrossings)))
        /\ DownsAfterStart # {} =>
               VwResult.end_time = jd_to_datetime(SampleJd(MinOf(DownsAfterStart)))

\* a window computed for a track that crosses the threshold upward twice and
\* downward twice
C5_Witness ==
    /\ VwDone
    /\ Cardinality(UpCrossings) >= 2
    /\ Cardinality(DownCrossings) >= 2

\* C6 as stated: whenever the target is at or above min_altitude at the last
\* sample, end_time is 00:00 UTC of the following day.
C6_Original ==
    (VwDone /\ VisibleAt(SAMPLES)) => VwResult.end_time = SECONDS_PER_DAY

\* C6 amended: when the target is at or above min_altitude at the last sample
\* and the scan saw no downward crossing before, end_time is 00:00 UTC of the
\* following day; after a downward crossing end_time stays at that crossing.
C6_DayEndExtends ==
    (VwDone /\ VisibleAt(SAMPLES)) =>
        IF DownCrossings = {}
        THEN VwResult.end_time = SECONDS_PER_DAY
        ELSE VwResult.end_time = jd_to_datetime(SampleJd(MinOf(DownCrossings)))

\* a window for a target that rises during the day and is still up at its end
C6_Witness ==
    /\ VwDone
    /\ VisibleAt(SAMPLES)
    /\ DownCrossings = {}
    /\ ~VisibleAt(0)
    /\ VwResult.end_time = SECONDS_PER_DAY

\* C7: when the scan sees no crossing at all, the window is not visible, its
\* start and end are both midnight of the date and its duration is 0.
C7_NoCrossingNotVisible ==
    (VwDone /\ UpCrossings = {} /\ DownCrossings = {}) =>
        /\ ~VwResult.is_visible
        /\ VwResult.start_time = 0
        /\ VwResult.end_time = 0
        /\ VwResult.duration_minutes = 0

\* a window for a target whose altitude changes but never reaches the threshold
C7_Witness ==
    /\ VwDone
    /\ UpCrossings = {}
    /\ \E i \in 1..SAMPLES :
           ra_dec_to_alt_az(vw_track, i) # ra_dec_to_alt_az(vw_track, 0)

\* C8: a visible window is one contiguous run above the threshold: start is
\* not after end, duration_hours is end - start, and the altitude is at least
\* min_altitude at every sample instant in [start, end).
C8_ContiguousRun ==
    (VwDone /\ VwResult.is_visible) =>
        /\ VwResult.start_time <= VwResult.end_time
        /\ VwResult.duration_minutes >= 0
        /\ VwResult.duration_minutes * 60 = VwResult.end_time - VwResult.start_time
        /\ \A i \in 0..SAMPLES :
               (VwResult.start_time <= SampleInstant(i)
                    /\ SampleInstant(i) < VwResult.end_time) => VisibleAt(i)

\* C27: in every window returned with is_visible = true the instant of the
\* peak altitude lies inside the window: start_time <= max_altitude_time <=
\* end_time.
C27_PeakInsideWindow ==
    (VwDone /\ VwResult.is_visible) =>
        /\ VwResult.start_time <= VwResult.max_altitude_time
        /\ VwResult.max_altitude_time <= VwResult.end_time

\* ---------------------------------------------------------------------------
\* Properties of detect_conflicts (checked under SpecConf)
\* ---------------------------------------------------------------------------
CfDone == is_some(conflict_result)
CfResult == unwrap(conflict_result)
CfTargets == sequence.targets
CfWindow(i) == TargetWindow(CfTargets[i])
\* required runtime of target i in 1/TimeScale seconds
CfRuntime(i) == target_runtime(CfTargets[i], sequence.estimated_download_time)
\* runtime above the window duration (duration_hours x 3600 s)
CfRuntimeExceeds(i) == CfRuntime(i) > CfWindow(i).duration_minutes * 60 * TimeScale
\* the conflicts of one kind reported for target i alone (names are unique)
CfSingles(i, type) ==
    { k \in 1..Len(CfResult.conflicts) :
        /\ CfResult.conflicts[k].conflict_type = type
        /\ CfResult.conflicts[k].target1_name = CfTargets[i].target_name
        /\ CfResult.conflicts[k].target1_id = CfTargets[i].id
        /\ CfResult.conflicts[k].target2_id = "" }
CfOfType(type) ==
    { k \in 1..Len(CfResult.conflicts) : CfResult.conflicts[k].conflict_type = type }

\* C9 as stated: a VisibilityGap for every target without a window and an
\* InsufficientTime for every target whose runtime exceeds its window duration;
\* so a non-empty sequence whose targets all exceed their window duration has
\* at least one InsufficientTime conflict and at least one suggestion.
C9_Original ==
    CfDone =>
        /\ \A i \in 1..Len(CfTargets) :
               /\ ~CfWindow(i).is_visible => CfSingles(i, "VisibilityGap") # {}
               /\ CfRuntimeExceeds(i) => CfSingles(i, "InsufficientTime") # {}
        /\ (Len(CfTargets) > 0 /\ \A i \in 1..Len(CfTargets) : CfRuntimeExceeds(i)) =>
               /\ CfOfType("InsufficientTime") # {}
               /\ Len(CfResult.suggestions) >= 1

\* C9 amended: a VisibilityGap exactly for the targets without a window, an
\* InsufficientTime exactly for the visible targets whose runtime exceeds the
\* window duration; a non-empty sequence whose targets all exceed their window
\* duration has a conflict and a suggestion, and an InsufficientTime conflict
\* as soon as one of its targets is visible.
C9_ConflictsPerTarget ==
    CfDone =>
        /\ \A i \in 1..Len(CfTargets) :
               /\ Cardinality(CfSingles(i, "VisibilityGap"))
                      = IF CfWindow(i).is_visible THEN 0 ELSE 1
               /\ Cardinality(CfSingles(i, "InsufficientTime"))
                      = IF CfWindow(i).is_visible /\ CfRuntimeExceeds(i) THEN 1 ELSE 0
        /\ (Len(CfTargets) > 0 /\ \A i \in 1..Len(CfTargets) : CfRuntimeExceeds(i)) =>
               /\ CfResult.conflicts # <<>>
               /\ Len(CfResult.suggestions) >= 1
               /\ (\E i \in 1..Len(CfTargets) : CfWindow(i).is_visible) =>
                      CfOfType("InsufficientTime") # {}

\* conflicts reported for a sequence in which every runtime exceeds the window
\* duration, one target being visible and another one not
C9_Witness ==
    /\ CfDone
    /\ Len(CfTargets) >= 2
    /\ \A i \in 1..Len(CfTargets) : CfRuntimeExceeds(i)
    /\ \E i \in 1..Len(CfTargets) : CfWindow(i).is_visible
    /\ \E i \in 1..Len(CfTargets) : ~CfWindow(i).is_visible
    /\ CfOfType("InsufficientTime") # {}
    /\ CfOfType("VisibilityGap") # {}

\* the later of the two window starts and the earlier of the two window ends
CfLaterStart(i, j) ==
    IF CfWindow(i).start_time >= CfWindow(j).start_time
    THEN CfWindow(i).start_time ELSE CfWindow(j).start_time
CfEarlierEnd(i, j) ==
    IF CfWindow(i).end_time <= CfWindow(j).end_time
    THEN CfWindow(i).end_time ELSE CfWindow(j).end_time
\* pairs i < j, both visible, windows overlapping, runtimes together longer
\* than the overlap
CfOverlapPairs ==
    { p \in (1..Len(CfTargets)) \X (1..Len(CfTargets)) :
        /\ p[1] < p[2]
        /\ CfWindow(p[1]).is_visible /\ CfWindow(p[2]).is_visible
        /\ CfLaterStart(p[1], p[2]) < CfEarlierEnd(p[1], p[2])
        /\ CfRuntime(p[1]) + CfRuntime(p[2])
               > (CfEarlierEnd(p[1], p[2]) - CfLaterStart(p[1], p[2])) * TimeScale }
CfPairConflicts(i, j) ==
    { k \in CfOfType("TimeOverlap") :
        /\ CfResult.conflicts[k].target1_name = CfTargets[i].target_name
        /\ CfResult.conflicts[k].target1_id = CfTargets[i].id
        /\ CfResult.conflicts[k].target2_name = CfTargets[j].target_name
        /\ CfResult.conflicts[k].target2_id = CfTargets[j].id }

\* C10: exactly one TimeOverlap conflict for each unordered pair of visible
\* targets whose windows overlap and whose runtimes sum to more than the
\* overlap, none for any other pair, and no pair twice.
C10_TimeOverlapPairs ==
    CfDone =>
        /\ \A i, j \in 1..Len(CfTargets) :
               Cardinality(CfPairConflicts(i, j))
                   = IF <<i, j>> \in CfOverlapPairs THEN 1 ELSE 0
        /\ Cardinality(CfOfType("TimeOverlap")) = Cardinality(CfOverlapPairs)

\* conflicts reported for three visible targets of which two pairs qualify and
\* one pair overlaps with time to spare
C10_Witness ==
    /\ CfDone
    /\ Cardinality(CfOverlapPairs) >= 2
    /\ \E i, j \in 1..Len(CfTargets) :
           /\ i < j
           /\ CfWindow(i).is_visible /\ CfWindow(j).is_visible
           /\ CfLaterStart(i, j) < CfEarlierEnd(i, j)
           /\ <<i, j>> \notin CfOverlapPairs

\* ---------------------------------------------------------------------------
\* Properties of optimize_sequence (checked under SpecOpt)
\* ---------------------------------------------------------------------------
OptDone == is_some(opt_result)
OptResult == unwrap(opt_result)
OptTargets == sequence.targets
CountIn(seq, x) == Cardinality({k \in 1..Len(seq) : seq[k] = x})
\* both sequences hold the same elements the same number of times
IsPermutation(a, b) ==
    /\ Len(a) = Len(b)
    /\ \A k \in 1..Len(a) : CountIn(a, a[k]) = CountIn(b, a[k])
OptNotVisible == {i \in 1..Len(OptTargets) : ~TargetWindow(OptTargets[i]).is_visible}

\* C1: for every strategy and target list the result has success = true,
\* original_order is the input id order, optimized_order is a permutation of
\* it, and every target without a visibility window has exactly one warning.
C1_CompleteOrdering ==
    OptDone =>
        /\ OptResult.success
        /\ OptResult.original_order = [i \in 1..Len(OptTargets) |-> OptTargets[i].id]
        /\ IsPermutation(OptResult.optimized_order, OptResult.original_order)
        /\ Len(OptResult.warnings) = Cardinality(OptNotVisible)
        /\ \A i \in 1..Len(OptTargets) :
               CountIn(OptResult.warnings, OptTargets[i].target_name)
                   = IF i \in OptNotVisible THEN 1 ELSE 0

\* an optimized order that differs from the input order, for three targets
\* with pairwise different ids of which one has no window
C1_Witness ==
    /\ OptDone
    /\ Len(OptTargets) = 3
    /\ \A i, j \in 1..3 : i # j => OptTargets[i].id # OptTargets[j].id
    /\ OptNotVisible # {}
    /\ OptNotVisible # 1..3
    /\ OptResult.optimized_order # OptResult.original_order

\* the targets have pairwise different ids, so an id of optimized_order names
\* one target of the input
OptDistinctIds == \A i, j \in 1..Len(OptTargets) : i # j => OptTargets[i].id # OptTargets[j].id
OptIndexOf(id) == CHOOSE i \in 1..Len(OptTargets) : OptTargets[i].id = id
\* place k of optimized_order as an index into the input
OptPlace(k) == OptIndexOf(OptResult.optimized_order[k])
OptSeparation(i, j) ==
    angular_distance(OptTargets[i].coordinates, OptTargets[j].coordinates)
OptVisible == {i \in 1..Len(OptTargets) : TargetWindow(OptTargets[i]).is_visible}
OptFirstOfTour == IF OptVisible # {} THEN MinOf(OptVisible) ELSE 1

\* the order is a nearest-neighbour tour from the first visible target
OptIsNearestNeighbourTour ==
    /\ OptPlace(1) = OptFirstOfTour
    /\ \A k \in 2..Len(OptTargets) :
           \A j \in 1..Len(OptTargets) :
               (\A m \in 1..(k - 1) : OptPlace(m) # j) =>
                   OptSeparation(OptPlace(k - 1), OptPlace(k))
                       <= OptSeparation(OptPlace(k - 1), j)

\* C23 as stated: under MinimizeSlew, for a target list of any length, the
\* first element of optimized_order is the first visible input target (the
\* first target if none is visible) and every later element is nearest to the
\* one before it among the targets not yet scheduled.
C23_Original ==
    (OptDone /\ strategy = "MinimizeSlew" /\ OptDistinctIds /\ Len(OptTargets) > 0) =>
        OptIsNearestNeighbourTour

\* C23: under MinimizeSlew a list of at most two targets keeps its input
\* order; for three or more targets the first element of optimized_order is
\* the first visible input target (the first target if none is visible) and
\* every later element is nearest to the one before it among the targets not
\* yet scheduled.
C23_NearestNeighbourFromThree ==
    (OptDone /\ strategy = "MinimizeSlew" /\ OptDistinctIds) =>
        IF Len(OptTargets) <= 2
        THEN OptResult.optimized_order = OptResult.original_order
        ELSE OptIsNearestNeighbourTour

\* three targets whose first has no window: the tour starts at a later one
\* and then goes to the nearer of the other two, which the input order does not
C23_Witness ==
    /\ OptDone
    /\ strategy = "MinimizeSlew"
    /\ OptDistinctIds
    /\ Len(OptTargets) = 3
    /\ 1 \notin OptVisible
    /\ OptPlace(1) = 2
    /\ OptPlace(2) = 1
    /\ OptSeparation(2, 1) < OptSeparation(2, 3)

SortingStrategies == { "MaxAltitude", "TransitTime", "VisibilityStart",
                       "VisibilityDuration", "MoonAvoidance", "Combined" }
\* the quality score of input target i at its peak instant
OptQualityAtPeak(i) == OptTargets[i].coordinates.quality_at_peak
\* the same score, counted as 0 for a target without a window
OptQualityIfVisible(i) == IF i \in OptVisible THEN OptQualityAtPeak(i) ELSE 0

\* what a strategy orders input target i by, larger first for the descending
\* strategies (Rank is the negated value), with `quality` as the quality score;
\* the Combined score is taken times 36
OptRank(strat, i, quality) ==
    LET w == TargetWindow(OptTargets[i])
    IN  CASE strat = "MaxAltitude" -> 0 - w.max_altitude
          [] strat = "TransitTime" -> w.max_altitude_time
          [] strat = "VisibilityStart" -> w.start_time
          [] strat = "VisibilityDuration" -> 0 - w.duration_minutes
          [] strat = "MoonAvoidance" -> 0 - quality
          [] strat = "Combined" ->
                 0 - (12 * w.max_altitude + 18 * quality + w.duration_minutes)

\* C24 as stated: the order is sorted by the strategy's key, the quality score
\* being the score at the peak instant for every target, and targets with
\* equal keys keep their input order.
C24_Original ==
    (OptDone /\ strategy \in SortingStrategies /\ OptDistinctIds) =>
        \A k \in 1..(Len(OptTargets) - 1) :
            LET a == OptRank(strategy, OptPlace(k), OptQualityAtPeak(OptPlace(k)))
                b == OptRank(strategy, OptPlace(k + 1), OptQualityAtPeak(OptPlace(k + 1)))
            IN  a < b \/ (a = b /\ OptPlace(k) < OptPlace(k + 1))

\* C24: the order is sorted by the strategy's key, where the quality score of
\* MoonAvoidance and Combined is the score at the peak instant for a target
\* with a window and 0 for a target without one; targets with equal keys keep
\* their input order.
C24_SortedByStrategyKey ==
    (OptDone /\ strategy \in SortingStrategies /\ OptDistinctIds) =>
        \A k \in 1..(Len(OptTargets) - 1) :
            LET a == OptRank(strategy, OptPlace(k), OptQualityIfVisible(OptPlace(k)))
                b == OptRank(strategy, OptPlace(k + 1), OptQualityIfVisible(OptPlace(k + 1)))
            IN  a < b \/ (a = b /\ OptPlace(k) < OptPlace(k + 1))

\* MoonAvoidance puts a target without a window behind a visible target of a
\* lower score at its peak, and keeps two targets of equal key in input order
C24_Witness ==
    /\ OptDone
    /\ strategy = "MoonAvoidance"
    /\ OptDistinctIds
    /\ Len(OptTargets) = 3
    /\ OptPlace(3) = 1
    /\ 1 \notin OptVisible
    /\ OptQualityAtPeak(1) > OptQualityAtPeak(2)
    /\ OptQualityIfVisible(2) = OptQualityIfVisible(3)
    /\ OptPlace(1) = 2

\* the estimate of estimate_slew_time for the targets in their input order
OptOriginalSlewTime == estimate_slew_time(OptTargetInfo(sequence))

\* C29: under MinimizeSlew the estimated slew time of the optimized order is
\* never greater than the same estimate for the input order.
C29_SlewTimeNotIncreased ==
    (OptDone /\ strategy = "MinimizeSlew") =>
        OptResult.estimated_slew_time <= OptOriginalSlewTime

\* ---------------------------------------------------------------------------
\* Properties of the batch functions (checked under SpecPar)
\* ---------------------------------------------------------------------------
ParDone == is_some(par_result)
ParResult == unwrap(par_result)
ParTargets == sequence.targets
EtasDone == ParDone /\ par_op = "calculate_etas_parallel"
EtaStart(i) == unwrap(ParResult[i].eta_start)
\* places where eta_start does not move on from the target before
EtaStalls == {i \in 2..Len(ParResult) : EtaStart(i) = EtaStart(i - 1)}

\* C2 as stated: eta_start is strictly increasing across consecutive targets.
C2_Original ==
    EtasDone => \A i \in 2..Len(ParResult) : EtaStart(i) > EtaStart(i - 1)

\* C2: the first eta_start is the start instant and each later one is the one
\* before plus the whole seconds of the runtime of the target before, so it is
\* strictly greater exactly when that runtime is at least one second.
C2_EtaStartAdvances ==
    EtasDone =>
        /\ Len(ParResult) > 0 => EtaStart(1) = ETA_START_TIME
        /\ \A i \in 2..Len(ParResult) :
               /\ EtaStart(i) = EtaStart(i - 1) + TruncSeconds(ParResult[i - 1].runtime)
               /\ EtaStart(i) > EtaStart(i - 1) <=> ParResult[i - 1].runtime >= TimeScale

\* the parallel branch, finished out of input order, for a list in which a
\* target of half a second holds eta_start back and another moves it on
C2_Witness ==
    /\ EtasDone
    /\ Len(ParTargets) > PARALLEL_THRESHOLD
    /\ par_out_of_order
    /\ \E i \in EtaStalls : ParResult[i - 1].runtime > 0
    /\ \E i \in 2..Len(ParResult) : i \notin EtaStalls

\* (exposure_time + download_time) x max(total_count - progress_count, 0) of
\* exposure k of target t
ExposureProduct(t, download_time, k) ==
    LET e == t.exposures[k]
        left == e.total_count - e.progress_count
    IN  (e.exposure_time + download_time) * (IF left > 0 THEN left ELSE 0)

\* the sum of ExposureProduct over the exposures 1..k that are in `which`
RECURSIVE SumProducts(_, _, _, _)
SumProducts(t, download_time, which, k) ==
    IF k = 0 THEN 0
    ELSE SumProducts(t, download_time, which, k - 1)
         + (IF k \in which THEN ExposureProduct(t, download_time, k) ELSE 0)

EnabledExposures(t) == {k \in 1..Len(t.exposures) : t.exposures[k].enabled}

\* C3 as stated: the reported runtime is the sum over all exposures of the
\* target of (exposure_time + download_time) x remaining.
C3_Original ==
    EtasDone =>
        \A i \in 1..Len(ParResult) :
            ParResult[i].runtime =
                SumProducts(ParTargets[i], sequence.estimated_download_time,
                            1..Len(ParTargets[i].exposures),
                            Len(ParTargets[i].exposures))

\* C3: the reported runtime is the target's delay plus the sum over its
\* enabled exposures of (exposure_time + download_time) x remaining.
C3_RuntimeOfEnabledPlusDelay ==
    EtasDone =>
        \A i \in 1..Len(ParResult) :
            ParResult[i].runtime =
                ParTargets[i].delay * TimeScale
                + SumProducts(ParTargets[i], sequence.estimated_download_time,
                              EnabledExposures(ParTargets[i]),
                              Len(ParTargets[i].exposures))

\* a result for a target with a delay, a disabled exposure that has frames
\* left, an exposure with more progress than total and one still to do
C3_Witness ==
    /\ EtasDone
    /\ sequence.estimated_download_time > 0
    /\ \E i \in 1..Len(ParResult) :
           LET t == ParTargets[i]
           IN  /\ t.delay > 0
               /\ \E k \in 1..Len(t.exposures) :
                      /\ ~t.exposures[k].enabled
                      /\ t.exposures[k].total_count > t.exposures[k].progress_count
               /\ \E k \in EnabledExposures(t) :
                      t.exposures[k].progress_count > t.exposures[k].total_count
               /\ ParResult[i].runtime > t.delay * TimeScale

\* C4: whatever the order in which the evaluations finish, the result of each
\* of the four batch functions has one entry per input target and entry i
\* carries the id of input target i; while the call runs, a finished
\* evaluation sits in the place of its own target.
C4_InputOrderKept ==
    /\ Len(par_slots) = Len(ParTargets)
    /\ \A i \in 1..Len(par_slots) :
           is_some(par_slots[i]) => unwrap(par_slots[i]).id = ParTargets[i].id
    /\ ParDone =>
           /\ Len(ParResult) = Len(ParTargets)
           /\ \A i \in 1..Len(ParTargets) : ParResult[i].id = ParTargets[i].id

\* a returned list of three windows of which a later one was finished before
\* an earlier one
C4_Witness ==
    /\ ParDone
    /\ par_op = "calculate_visibility_parallel"
    /\ Len(ParTargets) = 3
    /\ par_out_of_order
    /\ ParResult[1].window # ParResult[2].window

\* ---------------------------------------------------------------------------
\* Properties of the ConflictResult as a whole (checked under SpecConf)
\* ---------------------------------------------------------------------------
\* C11: has_conflicts is true exactly when the conflicts list is non-empty,
\* the suggestions list is non-empty exactly when the conflicts list is
\* non-empty, and the call leaves the sequence it was given as it was.
C11_ReportOnly ==
    /\ [](CfDone =>
            /\ CfResult.has_conflicts <=> (Len(CfResult.conflicts) > 0)
            /\ (Len(CfResult.suggestions) > 0) <=> (Len(CfResult.conflicts) > 0))
    /\ [][sequence' = sequence]_vars

\* a result without conflicts and without suggestions for a sequence of three
\* visible targets
C11_Witness ==
    /\ CfDone
    /\ Len(CfTargets) = 3
    /\ \A i \in 1..3 : CfWindow(i).is_visible
    /\ CfResult.conflicts = <<>>
    /\ CfResult.suggestions = <<>>
    /\ ~CfResult.has_conflicts

\* ---------------------------------------------------------------------------
\* Properties of apply_optimized_order (checked under SpecApply)
\* ---------------------------------------------------------------------------
AppIds == [i \in 1..Len(apply_original) |-> apply_original[i].id]
AppDistinctIds ==
    \A i, j \in 1..Len(apply_original) : i # j => AppIds[i] # AppIds[j]
Reverse(seq) == [k \in 1..Len(seq) |-> seq[Len(seq) + 1 - k]]
\* the places of `order` that name a target of the sequence
AppMatched == {k \in 1..Len(apply_order) :
                  \E i \in 1..Len(apply_original) : AppIds[i] = apply_order[k]}

\* C12: with pairwise distinct target ids and an order that is a permutation
\* of them, the targets end up in the order given, each one as it was (the
\* reversed id list gives the reversed target array); a target whose id is
\* not in the order is removed and an id of the order that no target has
\* adds nothing.
C12_AppliesOrder ==
    apply_done =>
        /\ AppDistinctIds /\ IsPermutation(apply_order, AppIds) =>
               /\ Len(sequence.targets) = Len(apply_original)
               /\ \A k \in 1..Len(apply_order) :
                      /\ sequence.targets[k].id = apply_order[k]
                      /\ \E i \in 1..Len(apply_original) :
                             sequence.targets[k] = apply_original[i]
               /\ apply_order = Reverse(AppIds) =>
                      sequence.targets = Reverse(apply_original)
        /\ \A i \in 1..Len(apply_original) :
               (\A k \in 1..Len(apply_order) : apply_order[k] # AppIds[i]) =>
                   \A j \in 1..Len(sequence.targets) :
                       sequence.targets[j].id # AppIds[i]
        /\ Len(sequence.targets) = Cardinality(AppMatched)
        /\ \A j \in 1..Len(sequence.targets) :
               \E i \in 1..Len(apply_original) : sequence.targets[j] = apply_original[i]

\* three different targets put in reverse by the reversed list of their ids
C12_Witness ==
    /\ apply_done
    /\ Len(apply_original) = 3
    /\ AppDistinctIds
    /\ apply_original[1].coordinates # apply_original[3].coordinates
    /\ apply_order = Reverse(AppIds)
    /\ sequence.targets = Reverse(apply_original)

\* ---------------------------------------------------------------------------
\* Properties of the pure functions of astronomy.rs (checked under SpecAstro)
\* ---------------------------------------------------------------------------
CallDone(fn) == call.fn = fn /\ is_some(call_result)
CallResult == unwrap(call_result)

\* C13: the score is the sum of the three sub-scores, the altitude score lies
\* in [0,40], the twilight and the Moon score in [0,30], so the score lies in
\* [0,100] and no sub-score is negative.
C13_ScoreRanges ==
    CallDone("calculate_observation_quality") =>
        /\ CallResult.score = CallResult.altitude_score + CallResult.twilight_score
                              + CallResult.moon_score
        /\ CallResult.altitude_score \in 0..(40 * SCORE_SCALE)
        /\ CallResult.twilight_score \in 0..(30 * SCORE_SCALE)
        /\ CallResult.moon_score \in 0..(30 * SCORE_SCALE)
        /\ CallResult.score \in 0..(100 * SCORE_SCALE)

\* a full Moon next to a target below the horizon in daylight: every
\* sub-score, and the score, is 0
C13_Witness ==
    /\ CallDone("calculate_observation_quality")
    /\ call.moon_illum = 100
    /\ call.moon_sep = F64(0)
    /\ call.target_alt = F64(-1)
    /\ call.sun_alt = F64(1)
    /\ CallResult.score = 0

\* C14: when all four dawn values are there, astronomical dawn < nautical
\* dawn < civil dawn < sunrise; when all four dusk values are there, sunset <
\* civil dusk < nautical dusk < astronomical dusk.
C14_TwilightOrder ==
    CallDone("calculate_twilight") =>
        LET tw == CallResult
        IN  /\ (/\ is_some(tw.astronomical_dawn) /\ is_some(tw.nautical_dawn)
                /\ is_some(tw.civil_dawn) /\ is_some(tw.sunrise)) =>
                   /\ unwrap(tw.astronomical_dawn) < unwrap(tw.nautical_dawn)
                   /\ unwrap(tw.nautical_dawn) < unwrap(tw.civil_dawn)
                   /\ unwrap(tw.civil_dawn) < unwrap(tw.sunrise)
            /\ (/\ is_some(tw.sunset) /\ is_some(tw.civil_dusk)
                /\ is_some(tw.nautical_dusk) /\ is_some(tw.astronomical_dusk)) =>
                   /\ unwrap(tw.sunset) < unwrap(tw.civil_dusk)
                   /\ unwrap(tw.civil_dusk) < unwrap(tw.nautical_dusk)
                   /\ unwrap(tw.nautical_dusk) < unwrap(tw.astronomical_dusk)

\* a day on which all eight values are there
C14_Witness ==
    /\ CallDone("calculate_twilight")
    /\ \A f \in {"sunrise", "sunset", "civil_dawn", "civil_dusk", "nautical_dawn",
                 "nautical_dusk", "astronomical_dawn", "astronomical_dusk"} :
           is_some(CallResult[f])

\* the eight events of calculate_twilight: field, target altitude, direction
TwilightEvents ==
    { [field |-> "sunrise", target |-> SUNRISE_ALTITUDE, rising |-> TRUE],
      [field |-> "sunset", target |-> SUNRISE_ALTITUDE, rising |-> FALSE],
      [field |-> "civil_dawn", target |-> CIVIL_ALTITUDE, rising |-> TRUE],
      [field |-> "civil_dusk", target |-> CIVIL_ALTITUDE, rising |-> FALSE],
      [field |-> "nautical_dawn", target |-> NAUTICAL_ALTITUDE, rising |-> TRUE],
      [field |-> "nautical_dusk", target |-> NAUTICAL_ALTITUDE, rising |-> FALSE],
      [field |-> "astronomical_dawn", target |-> ASTRONOMICAL_ALTITUDE, rising |-> TRUE],
      [field |-> "astronomical_dusk", target |-> ASTRONOMICAL_ALTITUDE, rising |-> FALSE] }

\* the target altitude lies between the Sun's altitudes at the two ends of
\* the event's search window, in the direction of the event
EventBracketed(sun, ev) ==
    LET alt_low == sun_altitude(sun, SearchLow(ev.rising))
        alt_high == sun_altitude(sun, SearchHigh(ev.rising))
    IN  IF ev.rising THEN alt_low <= ev.target /\ ev.target <= alt_high
        ELSE alt_low >= ev.target /\ ev.target >= alt_high

\* the Sun passes the target altitude in the direction of the event at some
\* step of the day
EventOccurs(sun, ev) ==
    \E t \in 0..(DAY_STEPS - 1) :
        IF ev.rising
        THEN sun_altitude(sun, t) < ev.target /\ ev.target <= sun_altitude(sun, t + 1)
        ELSE sun_altitude(sun, t) > ev.target /\ ev.target >= sun_altitude(sun, t + 1)

\* C15: each of the eight fields is absent exactly when the target altitude
\* is not bracketed at the two ends of the event's search window, and then
\* the event does not occur that day; a field that is there holds an instant
\* inside the search window.
C15_AbsentMeansNoEvent ==
    CallDone("calculate_twilight") =>
        \A ev \in TwilightEvents :
            /\ is_none(CallResult[ev.field]) <=> ~EventBracketed(call.sun, ev)
            /\ is_none(CallResult[ev.field]) => ~EventOccurs(call.sun, ev)
            /\ is_some(CallResult[ev.field]) =>
                   /\ unwrap(CallResult[ev.field]) >= SearchLow(ev.rising) * STEP_SECONDS
                   /\ unwrap(CallResult[ev.field]) <= SearchHigh(ev.rising) * STEP_SECONDS

\* the half day that ends (rising) or starts (setting) at the step at which
\* the Sun is highest at the observer's longitude
LocalLow(sun, rising) == IF rising THEN sun.t0 - NOON_STEP ELSE sun.t0
LocalHigh(sun, rising) == IF rising THEN sun.t0 ELSE sun.t0 + NOON_STEP

\* the target altitude lies between the Sun's altitudes at local midnight
\* and local noon
EventInLocalHalfDay(sun, ev) ==
    LET alt_low == sun_altitude(sun, LocalLow(sun, ev.rising))
        alt_high == sun_altitude(sun, LocalHigh(sun, ev.rising))
    IN  IF ev.rising THEN alt_low <= ev.target /\ ev.target <= alt_high
        ELSE alt_low >= ev.target /\ ev.target >= alt_high

\* C25: for each threshold the rising search covers the half day that ends at
\* the observer's local solar noon and the setting search the half day that
\* starts at it: an event is found exactly when the Sun passes the threshold
\* in that half day, and the instant found lies in it.
C25_SearchFollowsLocalNoon ==
    CallDone("calculate_twilight") =>
        \A ev \in TwilightEvents :
            /\ is_some(CallResult[ev.field]) <=> EventInLocalHalfDay(call.sun, ev)
            /\ is_some(CallResult[ev.field]) =>
                   /\ unwrap(CallResult[ev.field]) >= LocalLow(call.sun, ev.rising) * STEP_SECONDS
                   /\ unwrap(CallResult[ev.field]) <= LocalHigh(call.sun, ev.rising) * STEP_SECONDS

\* C26: at any longitude is_polar_day holds exactly when the Sun's altitude at
\* the observer's local midnight is above -0.833 degrees, is_polar_night
\* exactly when its altitude at the observer's local noon is below it, and
\* the two flags are never both true.
C26_PolarFlagsFollowLocalDay ==
    CallDone("calculate_twilight") =>
        /\ CallResult.is_polar_day
               <=> sun_altitude(call.sun, call.sun.t0 - NOON_STEP) > SUNRISE_ALTITUDE
        /\ CallResult.is_polar_night
               <=> sun_altitude(call.sun, call.sun.t0) < SUNRISE_ALTITUDE
        /\ ~(CallResult.is_polar_day /\ CallResult.is_polar_night)

\* the darkness window of a find_optimal_observation_time call and the
\* 15-minute samples in it at which the target is at or above min_altitude
OtTwilight == calculate_twilight(call.sun)
OtWindowKnown ==
    is_some(OtTwilight.astronomical_dusk) /\ is_some(OtTwilight.astronomical_dawn)
OtDarkStart == unwrap(OtTwilight.astronomical_dusk)
OtDarkEnd == unwrap(OtTwilight.astronomical_dawn) + SECONDS_PER_DAY
OtSamples == { OtDarkStart + k * SAMPLE_SECONDS :
               k \in 0..((OtDarkEnd - OtDarkStart) \div SAMPLE_SECONDS) }
OtQualifying ==
    { c \in OtSamples :
        /\ c < OtDarkEnd
        /\ TargetAltitudeAt(call.track, c) >= call.min_altitude }

C17_NoAirMassBelowHorizon ==
    /\ CallDone("air_mass") =>
           /\ is_none(CallResult) <=> call.altitude <= 0
           /\ is_some(CallResult) => unwrap(CallResult) > 0
    /\ CallDone("batch_calculate_positions") =>
           /\ Len(CallResult) = Len(call.targets)
           /\ \A i \in 1..Len(CallResult) :
                  /\ is_none(CallResult[i].air_mass) <=> CallResult[i].altitude <= 0
                  /\ is_some(CallResult[i].air_mass) =>
                         unwrap(CallResult[i].air_mass) > 0

\* a batch with a target on the horizon that counts as visible and has no
\* air mass, next to one above it that has one
C17_Witness ==
    /\ CallDone("batch_calculate_positions")
    /\ \E i, j \in 1..Len(CallResult) :
           /\ CallResult[i].altitude = 0
           /\ CallResult[i].is_visible
           /\ is_none(CallResult[i].air_mass)
           /\ CallResult[j].altitude = 1
           /\ is_some(CallResult[j].air_mass)

\* ---------------------------------------------------------------------------
\* Properties of the commands (checked under SpecCmd)
\* ---------------------------------------------------------------------------
\* the command returned an error with a message and called no service function
CmdRejected ==
    /\ ~CallResult.ok
    /\ CallResult.error # ""
    /\ CallResult.evaluations = 0

\* C18: a command that is given a malformed date, instant or selector string
\* returns an error with a message and computes nothing: an unparseable date
\* or instant is rejected, a range whose end date precedes its start date is
\* rejected, and no malformed input is replaced by a default value.
C18_MalformedRejected ==
    /\ CallDone("calculate_visibility_range") =>
           (\/ call.start_date \in MalformedDates
            \/ call.end_date \in MalformedDates
            \/ DateBefore(unwrap(parse_date(call.end_date)),
                          unwrap(parse_date(call.start_date)))
            => CmdRejected)
    /\ CallDone("get_moon_phase") =>
           (is_some(call.datetime) /\ unwrap(call.datetime) \in MalformedInstants
            => CmdRejected)
    /\ CallDone("optimize_target_order") =>
           (\/ call.date \in MalformedDates
            \/ call.strategy \in UnknownStrategyNames
            => CmdRejected)

\* days of chrono's calendar from 0000-03-01 to the date of dt
DaysFromCivil(dt) ==
    LET y == IF dt.month <= 2 THEN dt.year - 1 ELSE dt.year
        m == IF dt.month <= 2 THEN dt.month + 9 ELSE dt.month - 3
    IN  365 * y + (y \div 4) - (y \div 100) + (y \div 400)
        + ((153 * m + 2) \div 5) + dt.day - 1

\* |a - b| < 2 seconds
WithinTwoSeconds(a, b) ==
    LET days == DaysFromCivil(a) - DaysFromCivil(b)
    IN  /\ days \in {-1, 0, 1}
        /\ days * SECONDS_PER_DAY + a.second - b.second \in {-1, 0, 1}

\* C19: for an instant of whole seconds, jd_to_datetime(datetime_to_jd(instant))
\* differs from the instant by less than 2 seconds; no instant falls back to
\* the default date or the default time.
C19_RoundTripWithinTwoSeconds ==
    CallDone("jd_roundtrip") => WithinTwoSeconds(CallResult.converted, call.original)

\* LST - RA x 15 of the call, before it is wrapped
HourAngleUnwrapped == lst(call.hours, call.longitude) - call.ra_hours * 15

\* C20 as stated: hour_angle lies in the half-open interval (-180, 180] and is
\* congruent modulo 360 to LST - RA x 15.
C20_Original ==
    CallDone("hour_angle") =>
        /\ CallResult > -180 /\ CallResult <= 180
        /\ (CallResult - HourAngleUnwrapped) % 360 = 0

\* C20: hour_angle lies in the closed interval [-180, 180] and is congruent
\* modulo 360 to LST - RA x 15; it is -180, not 180, exactly when
\* LST - RA x 15 is -180.
C20_HourAngleWrapped ==
    CallDone("hour_angle") =>
        /\ CallResult >= -180 /\ CallResult <= 180
        /\ (CallResult - HourAngleUnwrapped) % 360 = 0
        /\ CallResult = -180 <=> HourAngleUnwrapped = -180

\* an hour angle of -180 that was returned as it is
C20_Witness ==
    /\ CallDone("hour_angle")
    /\ HourAngleUnwrapped = -180
    /\ CallResult = -180

\* ---------------------------------------------------------------------------
\* Properties of merge_sequences (checked under SpecMerge)
\* ---------------------------------------------------------------------------
MergeInputTargets == ConcatTargets(call.sequences)

RECURSIVE SumTargetCounts(_)
SumTargetCounts(sequences) ==
    IF sequences = <<>> THEN 0
    ELSE Len(Head(sequences).targets) + SumTargetCounts(Tail(sequences))

\* C21: the targets of the merged sequence are the targets of all inputs, one
\* input after the other and in their order (as many as the inputs have in
\* sum, none for no inputs), each under a new id, and the ids of the result
\* are pairwise distinct even when the inputs share ids.
C21_MergeConcatenatesWithFreshIds ==
    CallDone("merge_sequences") =>
        LET out == CallResult.targets
        IN  /\ Len(out) = SumTargetCounts(call.sequences)
            /\ \A k \in 1..Len(out) :
                   /\ [out[k] EXCEPT !.id = MergeInputTargets[k].id] = MergeInputTargets[k]
                   /\ \A j \in 1..Len(MergeInputTargets) : out[k].id # MergeInputTargets[j].id
            /\ \A j, k \in 1..Len(out) : j # k => out[j].id # out[k].id

\* two sequences that share an id are merged into at least three targets
C21_Witness ==
    /\ CallDone("merge_sequences")
    /\ Len(call.sequences) = 2
    /\ Len(CallResult.targets) >= 3
    /\ call.sequences[1].targets # <<>>
    /\ \E k \in 1..Len(call.sequences[2].targets) :
           call.sequences[2].targets[k].id = call.sequences[1].targets[1].id

\* the Vec that the sequential branch builds for the first n targets, and the
\* current_time it has reached after them
RECURSIVE SequentialEtas(_, _, _)
SequentialEtas(seq, n, start_time) ==
    IF n = 0 THEN [results |-> <<>>, current_time |-> start_time]
    ELSE LET before == SequentialEtas(seq, n - 1, start_time)
             entry == EtaSequentialEntry(seq, n, before.current_time)
         IN  [ results |-> Append(before.results, entry),
               current_time |-> unwrap(entry.eta_end) ]

\* C22: for more than 10 targets the parallel branch returns, for every
\* target, the runtime, eta_start and eta_end that the sequential running sum
\* gives for the same sequence and start instant; the first eta_start is the
\* start instant and eta_end of a target is eta_start of the next.
C22_ParallelEqualsSequential ==
    (EtasDone /\ Len(ParTargets) > PARALLEL_THRESHOLD) =>
        /\ ParResult = SequentialEtas(sequence, Len(ParTargets), ETA_START_TIME).results
        /\ EtaStart(1) = ETA_START_TIME
        /\ \A i \in 1..(Len(ParResult) - 1) :
               unwrap(ParResult[i].eta_end) = EtaStart(i + 1)

\* eleven targets evaluated out of input order, with a runtime of half a
\* second and a longer one among them
C22_Witness ==
    /\ EtasDone
    /\ Len(ParTargets) > PARALLEL_THRESHOLD
    /\ par_out_of_order
    /\ \E i \in 1..Len(ParResult) :
           ParResult[i].runtime > 0 /\ ParResult[i].runtime < TimeScale
    /\ \E i \in 1..Len(ParResult) : ParResult[i].runtime >= TimeScale
    /\ unwrap(ParResult[Len(ParResult)].eta_end) > ETA_START_TIME

\* the dates from the start date through the end date of the call
BestDateRange ==
    RangeDates(unwrap(parse_date(call.start_date)), unwrap(parse_date(call.end_date)))

\* C28: for start_date <= end_date find_best_observation_date returns with one
\* date_scores entry for every calendar date from start_date through end_date,
\* in ascending order, and best_date is a date of that range whose score is
\* the highest of all of them.
C28_EveryDateScored ==
    (/\ CallDone("find_best_observation_date")
     /\ call.start_date \in WellFormedDates
     /\ call.end_date \in WellFormedDates
     /\ ~DateBefore(unwrap(parse_date(call.end_date)), unwrap(parse_date(call.start_date))))
    => /\ CallResult.ok
       /\ CallResult.value.date_scores =
              [k \in 1..Len(BestDateRange) |->
                  <<format_date(BestDateRange[k]), call.score_of[BestDateRange[k]]>>]
       /\ \E k \in 1..Len(BestDateRange) :
              /\ CallResult.value.best_date = format_date(BestDateRange[k])
              /\ CallResult.value.best_score = call.score_of[BestDateRange[k]]
              /\ \A j \in 1..Len(BestDateRange) :
                     call.score_of[BestDateRange[j]] <= call.score_of[BestDateRange[k]]

\* C30: for every instant, next_new_moon and next_full_moon of
\* get_moon_phase_info are each strictly later than the instant and at most
\* one synodic month (29530.588853 thousandths of a day) after it.
C30_NextMoonsAhead ==
    CallDone("get_moon_phase_info") =>
        /\ CallResult.next_new_moon > call.days_since_new
        /\ CallResult.next_new_moon - call.days_since_new <= SYNODIC_MONTH
        /\ CallResult.next_full_moon > call.days_since_new
        /\ CallResult.next_full_moon - call.days_since_new <= SYNODIC_MONTH

====
